---- MODULE Spec2Model ----
(***************************************************************************)
(* Concurrency and state-coordination core of the mosaic digital clock     *)
(* (src/clock/src/main.rs).                                                *)
(*                                                                         *)
(* All tasks run on one cooperative embassy executor: a task runs until it *)
(* reaches an await that is really pending (a timer, a pin edge, an empty  *)
(* channel, an unsignalled Signal).  Acquiring a free Mutex does not       *)
(* suspend, and no Mutex is ever held across a pending await, so every     *)
(* action below is one loop iteration of one task, from a wake-up to the   *)
(* next pending await.  Timers whose length no property depends on expire  *)
(* nondeterministically.                                                   *)
(***************************************************************************)
EXTENDS Integers, Sequences, FiniteSets, TLC

VARIABLES
    CURRENT_STATE,          \* static CURRENT_STATE: Mutex<State>
    CURRENT_TIME,           \* static CURRENT_TIME: Mutex<DateTime>
    CURRENT_BRIGHTNESS,     \* static CURRENT_BRIGHTNESS: Mutex<usize>
    EVENT_CHANNEL,          \* static EVENT_CHANNEL: Channel<Event, 10>
    SCREEN_REFRESH_SIGNAL,  \* static SCREEN_REFRESH_SIGNAL: Signal<ScreenRefresh>
    rtc,                    \* the calendar time held by the PCF8563 device
    rtc_access,             \* the (task, call) pairs made on the RTC handle so far
    failed,                 \* the (task, call) pair of the device call that failed
    running,                \* the task the executor is polling, if any
    held,                   \* the task holding each Mutex, if any
    local,                  \* locals of the tasks that live across an await
    blink,                  \* screen_update: let mut blink: Option<BlinkData>
    frame_buffer,           \* what screen_update last drew: 4 x [digit, color]
    blink_frame,            \* blink_task: let mut blink_frame
    pc,                     \* position of each task
    matched,                \* on_event: the (event, state) pair last matched
    pending,                \* signal() calls since the Signal was last taken
    coalesced,              \* signal() calls the last taken value stood for
    sent,                   \* events handed to send_event so far
    ticks,                  \* ticks of run_time so far
    rtc_seconds,            \* seconds counted by the RTC device so far
    pin,                    \* level of each button's input pin
    timer,                  \* ms elapsed on the Timer a task has armed
    presses,                \* falling edges of the pins so far
    low_ms,                 \* ms each pin was low in its latest low period
    returns,                \* returns of wait_for_low_debounced in that period
    press_events,           \* events a button task sent for that period
    script                  \* events the button tasks are still to send

vars == <<CURRENT_STATE, CURRENT_TIME, CURRENT_BRIGHTNESS, EVENT_CHANNEL,
          SCREEN_REFRESH_SIGNAL, rtc, rtc_access, failed, running, held, local,
          blink, frame_buffer,
          blink_frame, pc, matched, pending, coalesced, sent, ticks,
          rtc_seconds, pin, timer, presses, low_ms, returns, press_events,
          script>>

----------------------------------------------------------------------------
(* Bounds of the model *)

MaxEvents == 3
MaxTicks == 1
MaxRtcSeconds == 1
MaxPresses == 3
MaxBusEvents == 12

----------------------------------------------------------------------------
(* Program constants and types *)

MAX_BRIGHTNESS_LEVEL == 6
BRIGHTNESS_MAP == <<5, 16, 32, 64, 96, 144>>
INITIAL_BRIGHTNESS == 3
HIGHLIGHT == 2
CHANNEL_CAPACITY == 10
DEBOUNCE_MS == 50
LONG_PRESS_MS == 3000
SCREEN_TIMEOUT_MS == 20000
BLINK_MS == 500

None == <<"None">>
Some(x) == <<"Some", x>>

Short == "Short"
Long == "Long"
ButtonPress == {Short, Long}
SetButton(p) == <<"SetButton", p>>
AdjustButton(p) == <<"AdjustButton", p>>
Event == {SetButton(p) : p \in ButtonPress} \cup {AdjustButton(p) : p \in ButtonPress}

Idle == <<"Idle">>
SettingTime(d) == <<"SettingTime", d>>
IsSettingTime(st) == st[1] = "SettingTime"

TimeChanged == <<"TimeChanged">>
Normal == <<"Normal">>
BlinkData(p, f) == [position |-> p, frame |-> f]
Blink(bd) == <<"Blink", bd>>
IsBlink(r) == r[1] = "Blink"

default_datetime ==
    [year |-> 0, month |-> 1, weekday |-> 0, day |-> 1,
     hours |-> 0, minutes |-> 0, seconds |-> 0]

Buttons == {"button1_task", "button2_task"}
Tasks == {"sync_time", "run_time", "screen_update", "blink_task", "process_events"}
             \cup Buttons

\* the Mutexes: the three statics and the RTC handle made in main
Locks == {"CURRENT_STATE", "CURRENT_TIME", "CURRENT_BRIGHTNESS", "rtc"}

\* the locals that live across an await: sync_time's synced_time,
\* on_event's event and state, to_state's new_state, advance_time's current,
\* screen_update's time
NoLocals ==
    [synced_time |-> None, event |-> None, state |-> None, new_state |-> None,
     current |-> None, time |-> None]

\* no task is being polled, no Mutex is held, no local is live
Parked ==
    /\ running = None
    /\ held = [l \in Locks |-> None]
    /\ local = NoLocals

\* the tasks whose Timer is followed
Timed == Buttons \cup {"screen_update", "blink_task"}

High == "High"
Low == "Low"

----------------------------------------------------------------------------
(* The persistent clock device *)

DeviceDate(h, m, s) ==
    [year |-> 26, month |-> 11, weekday |-> 5, day |-> 6,
     hours |-> h, minutes |-> m, seconds |-> s]

\* Readings the device may hold at power-up (all in range): the last second
\* of a day, so that every carry of the ticker and every wrap of an edit is
\* within reach of a few steps.
RtcPowerUpTimes ==
    {DeviceDate(23, 59, 59)}

\* The device counting one second.
rtc_count(t) ==
    IF t.seconds < 59 THEN [t EXCEPT !.seconds = @ + 1]
    ELSE IF t.minutes < 59 THEN [t EXCEPT !.seconds = 0, !.minutes = @ + 1]
    ELSE IF t.hours < 23 THEN [t EXCEPT !.seconds = 0, !.minutes = 0, !.hours = @ + 1]
    ELSE [t EXCEPT !.seconds = 0, !.minutes = 0, !.hours = 0, !.day = @ + 1]

----------------------------------------------------------------------------
(* The shared cells an event handler works on, as one record *)

Shared ==
    [state |-> CURRENT_STATE, time |-> CURRENT_TIME,
     brightness |-> CURRENT_BRIGHTNESS, signal |-> SCREEN_REFRESH_SIGNAL,
     rtc |-> rtc, pending |-> pending, access |-> rtc_access]

\* Signal::signal: the single slot is overwritten.  pending tells whether the
\* slot held nothing (0 -> 1) or an untaken request (-> 2, "several").
signal(s, request) ==
    [s EXCEPT !.signal = Some(request), !.pending = IF @ = 0 THEN 1 ELSE 2]

to_state(new_state, s) == [s EXCEPT !.state = new_state]

\* advance_time without the wrap of the edited field
advance_time_no_wrap(position, s) ==
    LET current == [s.rtc EXCEPT !.month = default_datetime.month,
                                 !.weekday = default_datetime.weekday,
                                 !.year = default_datetime.year]
        edited == IF position = 0
                  THEN [current EXCEPT !.minutes = @ + 1, !.seconds = 0]
                  ELSE IF position = 1
                  THEN [current EXCEPT !.hours = @ + 1]
                  ELSE current
    IN [s EXCEPT !.rtc = edited, !.time = edited,
                 !.signal = Some(TimeChanged),
                 !.pending = IF @ = 0 THEN 1 ELSE 2]

\* a call made on the RTC handle by the task that runs
get_datetime(task) == <<task, "get_datetime">>
set_datetime(task) == <<task, "set_datetime">>

\* advance_time that edits the shared time and leaves the device alone
advance_time_memory_only(position, s) ==
    LET current == [s.rtc EXCEPT !.month = default_datetime.month,
                                 !.weekday = default_datetime.weekday,
                                 !.year = default_datetime.year]
        edited == IF position = 0
                  THEN [current EXCEPT !.minutes = (@ + 1) % 60, !.seconds = 0]
                  ELSE IF position = 1
                  THEN [current EXCEPT !.hours = (@ + 1) % 24]
                  ELSE current
    IN signal([s EXCEPT !.time = edited,
                        !.access = @ \cup {get_datetime("process_events")}],
              TimeChanged)

advance_time(position, s) ==
    LET current == [s.rtc EXCEPT !.month = default_datetime.month,
                                 !.weekday = default_datetime.weekday,
                                 !.year = default_datetime.year]
        edited == IF position = 0
                  THEN [current EXCEPT !.minutes = (@ + 1) % 60, !.seconds = 0]
                  ELSE IF position = 1
                  THEN [current EXCEPT !.hours = (@ + 1) % 24]
                  ELSE current
    IN signal([s EXCEPT !.rtc = edited, !.time = edited,
                        !.access = @ \cup {get_datetime("process_events"),
                                           set_datetime("process_events")}],
              TimeChanged)

\* adjust_brightness wrapping one level too late ("0 - 6")
adjust_brightness_seven(s) ==
    [s EXCEPT !.brightness = (@ + 1) % (MAX_BRIGHTNESS_LEVEL + 1),
              !.signal = Some(Normal),
              !.pending = IF @ = 0 THEN 1 ELSE 2]

adjust_brightness(s) ==
    signal([s EXCEPT !.brightness = (@ + 1) % MAX_BRIGHTNESS_LEVEL], Normal)

\* on_event whose cancel arm matches SettingTime(0) only
on_event_cancel_first_only(event, s) ==
    IF event = SetButton(Long) /\ s.state = Idle
    THEN to_state(SettingTime(0), s)
    ELSE IF event = SetButton(Long) /\ s.state = SettingTime(0)
    THEN to_state(Idle, s)
    ELSE IF event = SetButton(Short) /\ IsSettingTime(s.state)
    THEN LET next_digit == (s.state[2] + 1) % 3
         IN IF next_digit = 2
            THEN to_state(Idle, signal(s, Normal))
            ELSE to_state(SettingTime(next_digit), s)
    ELSE IF event = AdjustButton(Short) /\ IsSettingTime(s.state)
    THEN advance_time(s.state[2], s)
    ELSE IF event = AdjustButton(Short) /\ s.state = Idle
    THEN adjust_brightness(s)
    ELSE s

\* on_event in which a short press of Set also enters the edit from Idle
on_event_short_enters(event, s) ==
    IF event \in {SetButton(Long), SetButton(Short)} /\ s.state = Idle
    THEN to_state(SettingTime(0), s)
    ELSE IF event = SetButton(Long) /\ IsSettingTime(s.state)
    THEN to_state(Idle, s)
    ELSE IF event = SetButton(Short) /\ IsSettingTime(s.state)
    THEN LET next_digit == (s.state[2] + 1) % 3
         IN IF next_digit = 2
            THEN to_state(Idle, signal(s, Normal))
            ELSE to_state(SettingTime(next_digit), s)
    ELSE IF event = AdjustButton(Short) /\ IsSettingTime(s.state)
    THEN advance_time(s.state[2], s)
    ELSE IF event = AdjustButton(Short) /\ s.state = Idle
    THEN adjust_brightness(s)
    ELSE s

\* on_event without the completion step: the next position is always stored
on_event_no_completion(event, s) ==
    IF event = SetButton(Long) /\ s.state = Idle
    THEN to_state(SettingTime(0), s)
    ELSE IF event = SetButton(Long) /\ IsSettingTime(s.state)
    THEN to_state(Idle, s)
    ELSE IF event = SetButton(Short) /\ IsSettingTime(s.state)
    THEN to_state(SettingTime((s.state[2] + 1) % 3), s)
    ELSE IF event = AdjustButton(Short) /\ IsSettingTime(s.state)
    THEN advance_time(s.state[2], s)
    ELSE IF event = AdjustButton(Short) /\ s.state = Idle
    THEN adjust_brightness(s)
    ELSE s

\* on_event in which a long press of Adjust edits the time as a short one does
on_event_any_adjust_edits(event, s) ==
    IF event = SetButton(Long) /\ s.state = Idle
    THEN to_state(SettingTime(0), s)
    ELSE IF event = SetButton(Long) /\ IsSettingTime(s.state)
    THEN to_state(Idle, s)
    ELSE IF event = SetButton(Short) /\ IsSettingTime(s.state)
    THEN LET next_digit == (s.state[2] + 1) % 3
         IN IF next_digit = 2
            THEN to_state(Idle, signal(s, Normal))
            ELSE to_state(SettingTime(next_digit), s)
    ELSE IF event \in {AdjustButton(Short), AdjustButton(Long)}
            /\ IsSettingTime(s.state)
    THEN advance_time(s.state[2], s)
    ELSE IF event = AdjustButton(Short) /\ s.state = Idle
    THEN adjust_brightness(s)
    ELSE s

\* on_event whose catch-all arm raises a Normal request
on_event_noop_refreshes(event, s) ==
    IF event = SetButton(Long) /\ s.state = Idle
    THEN to_state(SettingTime(0), s)
    ELSE IF event = SetButton(Long) /\ IsSettingTime(s.state)
    THEN to_state(Idle, s)
    ELSE IF event = SetButton(Short) /\ IsSettingTime(s.state)
    THEN LET next_digit == (s.state[2] + 1) % 3
         IN IF next_digit = 2
            THEN to_state(Idle, signal(s, Normal))
            ELSE to_state(SettingTime(next_digit), s)
    ELSE IF event = AdjustButton(Short) /\ IsSettingTime(s.state)
    THEN advance_time(s.state[2], s)
    ELSE IF event = AdjustButton(Short) /\ s.state = Idle
    THEN adjust_brightness(s)
    ELSE signal(s, Normal)

on_event(event, s) ==
    IF event = SetButton(Long) /\ s.state = Idle
    THEN to_state(SettingTime(0), s)
    ELSE IF event = SetButton(Long) /\ IsSettingTime(s.state)
    THEN to_state(Idle, s)
    ELSE IF event = SetButton(Short) /\ IsSettingTime(s.state)
    THEN LET next_digit == (s.state[2] + 1) % 3
         IN IF next_digit = 2
            THEN to_state(Idle, signal(s, Normal))
            ELSE to_state(SettingTime(next_digit), s)
    ELSE IF event = AdjustButton(Short) /\ IsSettingTime(s.state)
    THEN advance_time(s.state[2], s)
    ELSE IF event = AdjustButton(Short) /\ s.state = Idle
    THEN adjust_brightness(s)
    ELSE s

----------------------------------------------------------------------------
(* run_time: one tick *)

\* run_time dropping the carry out of the hours
run_time_no_day_carry(t) ==
    LET t1 == [t EXCEPT !.seconds = @ + 1]
        t2 == IF t1.seconds >= 60
              THEN [t1 EXCEPT !.seconds = 0, !.minutes = @ + 1] ELSE t1
        t3 == IF t2.minutes >= 60
              THEN [t2 EXCEPT !.minutes = 0, !.hours = @ + 1] ELSE t2
        t4 == IF t3.hours >= 24
              THEN [t3 EXCEPT !.hours = 0] ELSE t3
    IN t4

\* run_time comparing with > instead of >=
run_time_late_carry(t) ==
    LET t1 == [t EXCEPT !.seconds = @ + 1]
        t2 == IF t1.seconds > 60
              THEN [t1 EXCEPT !.seconds = 0, !.minutes = @ + 1] ELSE t1
        t3 == IF t2.minutes > 60
              THEN [t2 EXCEPT !.minutes = 0, !.hours = @ + 1] ELSE t2
        t4 == IF t3.hours > 24
              THEN [t3 EXCEPT !.hours = 0, !.day = @ + 1] ELSE t3
    IN t4

run_time(t) ==
    LET t1 == [t EXCEPT !.seconds = @ + 1]
        t2 == IF t1.seconds >= 60
              THEN [t1 EXCEPT !.seconds = 0, !.minutes = @ + 1] ELSE t1
        t3 == IF t2.minutes >= 60
              THEN [t2 EXCEPT !.minutes = 0, !.hours = @ + 1] ELSE t2
        t4 == IF t3.hours >= 24
              THEN [t3 EXCEPT !.hours = 0, !.day = @ + 1] ELSE t3
    IN t4

----------------------------------------------------------------------------
(* screen_update: one render pass *)

\* digits with quotient and remainder exchanged
digits_swapped(time) ==
    <<time.hours % 10, time.hours \div 10, time.minutes % 10, time.minutes \div 10>>

digits(time) ==
    <<time.hours \div 10, time.hours % 10, time.minutes \div 10, time.minutes % 10>>

\* the colour with position 1 highlighted on the second frame
color_second_frame(i, bl, brightness) ==
    IF bl # None /\ bl[2].frame = 0 /\ bl[2].position = 0 /\ i \in 2..3
    THEN HIGHLIGHT
    ELSE IF bl # None /\ bl[2].frame = 1 /\ bl[2].position = 1 /\ i \in 0..1
    THEN HIGHLIGHT
    ELSE brightness

\* the colour of digit i (0..3) under the remembered blink
color(i, bl, brightness) ==
    IF bl # None /\ bl[2].frame = 0 /\ bl[2].position = 0 /\ i \in 2..3
    THEN HIGHLIGHT
    ELSE IF bl # None /\ bl[2].frame = 0 /\ bl[2].position = 1 /\ i \in 0..1
    THEN HIGHLIGHT
    ELSE brightness

render(time, brightness_level, bl) ==
    [i \in 1..4 |->
        [digit |-> digits(time)[i],
         color |-> color(i - 1, bl, BRIGHTNESS_MAP[brightness_level + 1])]]

\* the match on the select result, lines 81-87
Timeout == <<"Timeout">>

\* the match with TimeChanged sharing the arm of Normal
wake_clears_on_time_changed(result, bl) ==
    IF IsBlink(result) THEN Some(result[2]) ELSE None

wake(result, bl) ==
    IF result = Timeout \/ result = Normal THEN None
    ELSE IF IsBlink(result) THEN Some(result[2])
    ELSE bl

----------------------------------------------------------------------------
(* Initial state: the statics as constructed, no task polled yet *)

Blank == [i \in 1..4 |-> [digit |-> 0, color |-> 0]]

\* the statics as constructed, with the device holding reading; events is
\* the run of events the button tasks will send, if it is fixed
Constructed(reading, events) ==
    /\ CURRENT_STATE = Idle
    /\ CURRENT_TIME = default_datetime
    /\ CURRENT_BRIGHTNESS = INITIAL_BRIGHTNESS
    /\ EVENT_CHANNEL = <<>>
    /\ SCREEN_REFRESH_SIGNAL = None
    /\ rtc = reading
    /\ rtc_access = {}
    /\ failed = None
    /\ Parked
    /\ blink = None
    /\ frame_buffer = Blank
    /\ blink_frame = 0
    /\ pc = [t \in Tasks |-> "start"]
    /\ pin = [b \in Buttons |-> High]
    /\ timer = [t \in Timed |-> 0]
    /\ matched = None
    /\ pending = 0
    /\ coalesced = 0
    /\ sent = 0
    /\ ticks = 0
    /\ rtc_seconds = 0
    /\ presses = 0
    /\ low_ms = [b \in Buttons |-> 0]
    /\ returns = [b \in Buttons |-> 0]
    /\ press_events = [b \in Buttons |-> <<>>]
    /\ script = events

Init == \E reading \in RtcPowerUpTimes : Constructed(reading, <<>>)

\* main spawns sync_time and run_time, sleeps 10 ms (both run their first
\* iteration meanwhile), then spawns the other tasks.
Spawned == pc["sync_time"] # "start" /\ pc["run_time"] # "start"

sched == <<running, held, local>>
cells == <<CURRENT_STATE, CURRENT_TIME, CURRENT_BRIGHTNESS,
           SCREEN_REFRESH_SIGNAL, rtc, rtc_access, failed, sched, pending,
           matched>>
screen == <<blink, frame_buffer, coalesced>>
pins == <<pin, presses, low_ms, returns, press_events>>
inputs == <<pin, timer, presses, low_ms, returns, press_events>>
clocks == <<ticks, rtc_seconds>>

----------------------------------------------------------------------------
(* Time keeping *)

\* sync_time: one iteration (at start, and whenever its 10 min timer ends)
SyncTime ==
    /\ CURRENT_TIME' = rtc
    /\ rtc_access' = rtc_access \cup {get_datetime("sync_time")}
    /\ pc' = [pc EXCEPT !["sync_time"] = "sleep"]
    /\ UNCHANGED <<CURRENT_STATE, CURRENT_BRIGHTNESS, SCREEN_REFRESH_SIGNAL,
                   rtc, failed, sched, pending, matched, EVENT_CHANNEL, screen,
                   blink_frame, inputs, clocks, sent, script>>

\* run_time: one iteration (at start, and at every tick of its Ticker)
RunTime ==
    /\ ticks < MaxTicks
    /\ CURRENT_TIME' = run_time(CURRENT_TIME)
    /\ ticks' = ticks + 1
    /\ pc' = [pc EXCEPT !["run_time"] = "ticker"]
    /\ UNCHANGED <<CURRENT_STATE, CURRENT_BRIGHTNESS, SCREEN_REFRESH_SIGNAL,
                   rtc, rtc_access, failed, sched, pending, matched,
                   EVENT_CHANNEL, screen,
                   blink_frame, inputs, rtc_seconds, sent, script>>

\* the RTC device counts a second
RtcCount ==
    /\ rtc_seconds < MaxRtcSeconds
    /\ rtc' = rtc_count(rtc)
    /\ rtc_seconds' = rtc_seconds + 1
    /\ UNCHANGED <<CURRENT_STATE, CURRENT_TIME, CURRENT_BRIGHTNESS,
                   SCREEN_REFRESH_SIGNAL, rtc_access, failed, sched, pending,
                   matched,
                   EVENT_CHANNEL, screen, blink_frame, pc, inputs, ticks, sent,
                   script>>

----------------------------------------------------------------------------
(* Events *)

\* a send that overwrites the newest pending event when the channel is full
send_event_overwrites(event) ==
    EVENT_CHANNEL' = IF Len(EVENT_CHANNEL) < CHANNEL_CAPACITY
                     THEN Append(EVENT_CHANNEL, event)
                     ELSE [EVENT_CHANNEL EXCEPT ![CHANNEL_CAPACITY] = event]

\* send_event: completes once the channel has room
send_event(event) ==
    /\ Len(EVENT_CHANNEL) < CHANNEL_CAPACITY
    /\ EVENT_CHANNEL' = Append(EVENT_CHANNEL, event)

\* a button task sends an event it has classified (any of the four)
SendEvent ==
    /\ Spawned
    /\ sent < MaxEvents
    /\ \E event \in Event : send_event(event)
    /\ sent' = sent + 1
    /\ UNCHANGED <<cells, screen, blink_frame, pc, inputs, clocks, script>>

\* the button tasks send the next event of a fixed run of presses
ScriptedEvent ==
    /\ Spawned
    /\ script # <<>>
    /\ send_event(Head(script))
    /\ script' = Tail(script)
    /\ sent' = sent + 1
    /\ UNCHANGED <<cells, screen, blink_frame, pc, inputs, clocks>>

\* process_events: receive one event and dispatch it
ProcessEvents ==
    /\ Spawned
    /\ EVENT_CHANNEL # <<>>
    /\ LET event == Head(EVENT_CHANNEL)
           s == on_event(event, Shared)
       IN /\ EVENT_CHANNEL' = Tail(EVENT_CHANNEL)
          /\ matched' = Some(<<event, CURRENT_STATE>>)
          /\ CURRENT_STATE' = s.state
          /\ CURRENT_TIME' = s.time
          /\ CURRENT_BRIGHTNESS' = s.brightness
          /\ SCREEN_REFRESH_SIGNAL' = s.signal
          /\ rtc' = s.rtc
          /\ rtc_access' = s.access
          /\ pending' = s.pending
    /\ pc' = [pc EXCEPT !["process_events"] = "recv"]
    /\ UNCHANGED <<failed, sched, screen, blink_frame, inputs, clocks, sent,
                   script>>

----------------------------------------------------------------------------
(* Blink driver and display *)

\* blink_task that keeps its frame counter while the mode is Idle
blink_task_keeps_frame(s, frame) ==
    IF IsSettingTime(s.state)
    THEN <<signal(s, Blink(BlinkData(s.state[2], frame))), (frame + 1) % 2>>
    ELSE <<s, frame>>

\* blink_task raising a request whatever the mode it reads
blink_task_any_mode(s, frame) ==
    <<signal(s, Blink(BlinkData(IF IsSettingTime(s.state) THEN s.state[2] ELSE 0,
                                frame))),
      (frame + 1) % 2>>

\* blink_task: one iteration; the request it raises, if any, and its next frame
blink_task(s, frame) ==
    IF IsSettingTime(s.state)
    THEN <<signal(s, Blink(BlinkData(s.state[2], frame))), (frame + 1) % 2>>
    ELSE <<s, 0>>

\* blink_task: one iteration (at start, and whenever its 500 ms timer ends),
\* up to the Timer armed at its end
BlinkTask ==
    /\ Spawned
    /\ LET r == blink_task(Shared, blink_frame)
       IN /\ SCREEN_REFRESH_SIGNAL' = r[1].signal
          /\ pending' = r[1].pending
          /\ blink_frame' = r[2]
    /\ pc' = [pc EXCEPT !["blink_task"] = "sleep"]
    /\ timer' = [timer EXCEPT !["blink_task"] = 0]
    /\ UNCHANGED <<CURRENT_STATE, CURRENT_TIME, CURRENT_BRIGHTNESS, rtc,
                   rtc_access, failed, sched, matched, EVENT_CHANNEL, screen,
                   pins, clocks,
                   sent, script>>

\* screen_update: the first render pass, before the first wait
ScreenStart ==
    /\ Spawned
    /\ pc["screen_update"] = "start"
    /\ frame_buffer' = render(CURRENT_TIME, CURRENT_BRIGHTNESS, blink)
    /\ pc' = [pc EXCEPT !["screen_update"] = "select"]
    /\ timer' = [timer EXCEPT !["screen_update"] = 0]
    /\ UNCHANGED <<cells, EVENT_CHANNEL, blink, coalesced, blink_frame, pins,
                   clocks, sent, script>>

\* a wait that reads the request and leaves it in the slot
take_keeps(slot) == slot

\* Signal::wait completing: the value is taken and the slot emptied
take(slot) == None

\* screen_update woken by the 20 s timer (Either::First), its render pass
\* and the select armed anew
ScreenTimeout ==
    /\ pc["screen_update"] = "select"
    /\ blink' = wake(Timeout, blink)
    /\ frame_buffer' = render(CURRENT_TIME, CURRENT_BRIGHTNESS, blink')
    /\ timer' = [timer EXCEPT !["screen_update"] = 0]
    /\ UNCHANGED <<cells, EVENT_CHANNEL, coalesced, blink_frame, pc, pins,
                   clocks, sent, script>>

\* screen_update woken by the refresh signal (Either::Second), and its render pass
ScreenSignal ==
    /\ pc["screen_update"] = "select"
    /\ SCREEN_REFRESH_SIGNAL # None
    /\ SCREEN_REFRESH_SIGNAL' = take(SCREEN_REFRESH_SIGNAL)
    /\ coalesced' = pending
    /\ pending' = 0
    /\ blink' = wake(SCREEN_REFRESH_SIGNAL[2], blink)
    /\ frame_buffer' = render(CURRENT_TIME, CURRENT_BRIGHTNESS, blink')
    /\ timer' = [timer EXCEPT !["screen_update"] = 0]
    /\ UNCHANGED <<CURRENT_STATE, CURRENT_TIME, CURRENT_BRIGHTNESS, rtc,
                   rtc_access, failed, sched, matched, EVENT_CHANNEL,
                   blink_frame, pc, pins,
                   clocks, sent, script>>

----------------------------------------------------------------------------
(* The system with the button tasks seen as senders of events *)

Next ==
    \/ SyncTime
    \/ RunTime
    \/ RtcCount
    \/ SendEvent
    \/ ProcessEvents
    \/ BlinkTask
    \/ ScreenStart
    \/ ScreenTimeout
    \/ ScreenSignal

Spec == Init /\ [][Next]_vars

----------------------------------------------------------------------------
(* The button tasks *)
(*                                                                         *)
(* button1_task and button2_task are the same code over their own pin;     *)
(* button1_task sends SetButton events and button2_task AdjustButton.      *)
(* Only the time a pin spends low matters: it passes in steps of half the  *)
(* length of the Timer the task has armed.  The executor polls a woken     *)
(* button task before its pin moves again (its latency is far below the    *)
(* 50 ms scale of the pins), so the pin and the time stand still while a   *)
(* step of the task is due.                                                *)

ButtonEvent(b, press) ==
    IF b = "button1_task" THEN SetButton(press) ELSE AdjustButton(press)

\* select(button.wait_for_high(), Timer::after(length)): the first future is
\* polled first
select(level, elapsed, length) ==
    IF level = High THEN "First"
    ELSE IF elapsed >= length THEN "Second"
    ELSE "Pending"

\* the loop that returns at the first return to high
returns_on_bounce(b) == TRUE

\* the loop that is left on a bounce and restarted on a settled low
leaves_on_bounce(b) ==
    select(pin[b], timer[b], DEBOUNCE_MS) = "First"

\* wait_for_low_debounced: whether the loop is left (break) or restarted
\* (continue) on the result of its select
wait_for_low_debounced(b) ==
    select(pin[b], timer[b], DEBOUNCE_MS) = "Second"

\* the task going back to wait for the next press right after any event
restart_after_send(press) == "wait_low"

\* the await that follows send_event in the arm taken
after_send(press) == IF press = Long THEN "wait_high" ELSE "wait_low"

\* a step of button task b is due
Due(b) ==
    \/ pc[b] = "start" /\ Spawned
    \/ pc[b] = "wait_low" /\ pin[b] = Low
    \/ pc[b] = "settle" /\ select(pin[b], timer[b], DEBOUNCE_MS) # "Pending"
    \/ pc[b] = "hold" /\ select(pin[b], timer[b], LONG_PRESS_MS) # "Pending"
    \/ pc[b] \in {"send_short", "send_long"}
         /\ Len(EVENT_CHANNEL) < CHANNEL_CAPACITY
    \/ pc[b] = "wait_high" /\ pin[b] = High

\* Input::new, entering the loop
ButtonStart(b) ==
    /\ Spawned
    /\ pc[b] = "start"
    /\ pc' = [pc EXCEPT ![b] = "wait_low"]
    /\ UNCHANGED <<cells, EVENT_CHANNEL, screen, blink_frame, inputs, clocks,
                   sent, script>>

\* wait_for_low completes; the 50 ms select is armed
ButtonLow(b) ==
    /\ pc[b] = "wait_low"
    /\ pin[b] = Low
    /\ pc' = [pc EXCEPT ![b] = "settle"]
    /\ timer' = [timer EXCEPT ![b] = 0]
    /\ UNCHANGED <<cells, EVENT_CHANNEL, screen, blink_frame, pin, presses,
                   low_ms, returns, press_events, clocks, sent, script>>

\* the 50 ms select completes: a bounce restarts the wait, otherwise
\* wait_for_low_debounced returns and the 3 s select is armed
ButtonSettle(b) ==
    /\ pc[b] = "settle"
    /\ select(pin[b], timer[b], DEBOUNCE_MS) # "Pending"
    /\ IF wait_for_low_debounced(b)
       THEN /\ pc' = [pc EXCEPT ![b] = "hold"]
            /\ returns' = [returns EXCEPT ![b] = @ + 1]
       ELSE /\ pc' = [pc EXCEPT ![b] = "wait_low"]
            /\ UNCHANGED returns
    /\ timer' = [timer EXCEPT ![b] = 0]
    /\ UNCHANGED <<cells, EVENT_CHANNEL, screen, blink_frame, pin, presses,
                   low_ms, press_events, clocks, sent, script>>

\* the 3 s select completes: released first is Short, the timer first is Long
ButtonClassify(b) ==
    /\ pc[b] = "hold"
    /\ LET a == select(pin[b], timer[b], LONG_PRESS_MS)
       IN /\ a # "Pending"
          /\ pc' = [pc EXCEPT ![b] = IF a = "First" THEN "send_short"
                                     ELSE "send_long"]
    /\ timer' = [timer EXCEPT ![b] = 0]
    /\ UNCHANGED <<cells, EVENT_CHANNEL, screen, blink_frame, pin, presses,
                   low_ms, returns, press_events, clocks, sent, script>>

\* send_event completes; after Long the task waits for the release
ButtonSend(b) ==
    /\ pc[b] \in {"send_short", "send_long"}
    /\ LET press == IF pc[b] = "send_short" THEN Short ELSE Long
       IN /\ send_event(ButtonEvent(b, press))
          /\ press_events' =
                [press_events EXCEPT ![b] = Append(@, ButtonEvent(b, press))]
          /\ pc' = [pc EXCEPT ![b] = after_send(press)]
    /\ sent' = sent + 1
    /\ UNCHANGED <<cells, screen, blink_frame, pin, timer, presses, low_ms,
                   returns, clocks, script>>

\* wait_for_high after a Long event completes
ButtonReleased(b) ==
    /\ pc[b] = "wait_high"
    /\ pin[b] = High
    /\ pc' = [pc EXCEPT ![b] = "wait_low"]
    /\ UNCHANGED <<cells, EVENT_CHANNEL, screen, blink_frame, inputs, clocks,
                   sent, script>>

\* the longest low time that is told apart
HoldCap == DEBOUNCE_MS + 2 * LONG_PRESS_MS

\* the pin goes low: a press, or a contact bouncing
PinFalls(b) ==
    /\ pc[b] # "start"
    /\ ~Due(b)
    /\ pin[b] = High
    /\ presses < MaxPresses
    /\ pin' = [pin EXCEPT ![b] = Low]
    /\ presses' = presses + 1
    /\ low_ms' = [low_ms EXCEPT ![b] = 0]
    /\ returns' = [returns EXCEPT ![b] = 0]
    /\ press_events' = [press_events EXCEPT ![b] = <<>>]
    /\ UNCHANGED <<cells, EVENT_CHANNEL, screen, blink_frame, pc, timer,
                   clocks, sent, script>>

\* the pin goes high: the release, or a contact bouncing
PinRises(b) ==
    /\ ~Due(b)
    /\ pin[b] = Low
    /\ pin' = [pin EXCEPT ![b] = High]
    /\ UNCHANGED <<cells, EVENT_CHANNEL, screen, blink_frame, pc, timer,
                   presses, low_ms, returns, press_events, clocks, sent,
                   script>>

\* time passes with the pin low
PinStaysLow(b) ==
    /\ ~Due(b)
    /\ pin[b] = Low
    /\ pc[b] \in {"settle", "hold"} \/ low_ms[b] < HoldCap
    /\ LET dt == IF pc[b] = "settle" THEN DEBOUNCE_MS \div 2
                 ELSE LONG_PRESS_MS \div 2
       IN /\ timer' = [timer EXCEPT ![b] = IF pc[b] \in {"settle", "hold"}
                                           THEN @ + dt ELSE @]
          /\ low_ms' = [low_ms EXCEPT ![b] = IF @ + dt < HoldCap THEN @ + dt
                                             ELSE HoldCap]
    /\ UNCHANGED <<cells, EVENT_CHANNEL, screen, blink_frame, pc, pin, presses,
                   returns, press_events, clocks, sent, script>>

\* After start-up: sync_time and run_time have run once (run_time first).
InitButtons ==
    /\ CURRENT_STATE = Idle
    /\ CURRENT_TIME \in RtcPowerUpTimes
    /\ rtc = CURRENT_TIME
    /\ rtc_access = {get_datetime("sync_time")}
    /\ failed = None
    /\ Parked
    /\ CURRENT_BRIGHTNESS = INITIAL_BRIGHTNESS
    /\ EVENT_CHANNEL = <<>>
    /\ SCREEN_REFRESH_SIGNAL = None
    /\ blink = None
    /\ frame_buffer = Blank
    /\ blink_frame = 0
    /\ pc = [t \in Tasks |-> IF t = "sync_time" THEN "sleep"
                             ELSE IF t = "run_time" THEN "ticker"
                             ELSE "start"]
    /\ pin = [b \in Buttons |-> High]
    /\ timer = [t \in Timed |-> 0]
    /\ matched = None
    /\ pending = 0
    /\ coalesced = 0
    /\ sent = 0
    /\ ticks = 1
    /\ rtc_seconds = 0
    /\ presses = 0
    /\ low_ms = [b \in Buttons |-> 0]
    /\ returns = [b \in Buttons |-> 0]
    /\ press_events = [b \in Buttons |-> <<>>]
    /\ script = <<>>

NextButtons ==
    \/ \E b \in Buttons :
          \/ ButtonStart(b)
          \/ ButtonLow(b)
          \/ ButtonSettle(b)
          \/ ButtonClassify(b)
          \/ ButtonSend(b)
          \/ ButtonReleased(b)
          \/ PinFalls(b)
          \/ PinRises(b)
          \/ PinStaysLow(b)
    \/ ProcessEvents

SpecButtons == InitButtons /\ [][NextButtons]_vars

----------------------------------------------------------------------------
(* A fixed run of presses, with no second passing meanwhile *)

EndToEndScript ==
    <<SetButton(Long), AdjustButton(Short), AdjustButton(Short),
      AdjustButton(Short), SetButton(Short), AdjustButton(Short),
      SetButton(Short)>>

\* After start-up (sync_time and run_time have run once, in either order)
\* with the shared time at 13:05:00 and Mode = Idle: the persistent clock
\* reads the same, or is the one second behind that run_time's first tick
\* has put between them.
InitScenario ==
    /\ CURRENT_STATE = Idle
    /\ CURRENT_TIME = DeviceDate(13, 5, 0)
    /\ CURRENT_BRIGHTNESS = INITIAL_BRIGHTNESS
    /\ EVENT_CHANNEL = <<>>
    /\ SCREEN_REFRESH_SIGNAL = None
    /\ rtc \in {DeviceDate(13, 5, 0), DeviceDate(13, 4, 59)}
    /\ rtc_access = {get_datetime("sync_time")}
    /\ failed = None
    /\ Parked
    /\ blink = None
    /\ frame_buffer = Blank
    /\ blink_frame = 0
    /\ pc = [t \in Tasks |-> IF t = "sync_time" THEN "sleep"
                             ELSE IF t = "run_time" THEN "ticker"
                             ELSE "start"]
    /\ pin = [b \in Buttons |-> High]
    /\ timer = [t \in Timed |-> 0]
    /\ matched = None
    /\ pending = 0
    /\ coalesced = 0
    /\ sent = 0
    /\ ticks = 1
    /\ rtc_seconds = 0
    /\ presses = 0
    /\ low_ms = [b \in Buttons |-> 0]
    /\ returns = [b \in Buttons |-> 0]
    /\ press_events = [b \in Buttons |-> <<>>]
    /\ script = EndToEndScript

NextScenario ==
    \/ ScriptedEvent
    \/ ProcessEvents
    \/ BlinkTask
    \/ ScreenStart
    \/ ScreenTimeout
    \/ ScreenSignal

SpecScenario == InitScenario /\ [][NextScenario]_vars

----------------------------------------------------------------------------
(* Time keeping alone, from power-up with the device at any of a range of    *)
(* valid readings: sync_time copies the reading, run_time ticks.             *)

TickerTimes ==
    {DeviceDate(h, m, s) : h \in {0, 12, 22, 23}, m \in {0, 30, 58, 59},
                           s \in 0..59}

InitTicker == \E reading \in TickerTimes : Constructed(reading, <<>>)

NextTicker ==
    \/ SyncTime
    \/ RunTime
    \/ RtcCount

SpecTicker == InitTicker /\ [][NextTicker]_vars

----------------------------------------------------------------------------
(* The state after start-up, for the specifications that begin there:        *)
(* sync_time and run_time have run once, the other tasks are spawned and not  *)
(* yet polled.  time is the shared time, reading the device's, events the    *)
(* run of events the button tasks will send.  Ticks are counted from here.   *)

Booted(time, reading, events) ==
    /\ CURRENT_STATE = Idle
    /\ CURRENT_TIME = time
    /\ CURRENT_BRIGHTNESS = INITIAL_BRIGHTNESS
    /\ EVENT_CHANNEL = <<>>
    /\ SCREEN_REFRESH_SIGNAL = None
    /\ rtc = reading
    /\ rtc_access = {get_datetime("sync_time")}
    /\ failed = None
    /\ Parked
    /\ blink = None
    /\ frame_buffer = Blank
    /\ blink_frame = 0
    /\ pc = [t \in Tasks |-> IF t = "sync_time" THEN "sleep"
                             ELSE IF t = "run_time" THEN "ticker"
                             ELSE "start"]
    /\ pin = [b \in Buttons |-> High]
    /\ timer = [t \in Timed |-> 0]
    /\ matched = None
    /\ pending = 0
    /\ coalesced = 0
    /\ sent = 0
    /\ ticks = 0
    /\ rtc_seconds = 0
    /\ presses = 0
    /\ low_ms = [b \in Buttons |-> 0]
    /\ returns = [b \in Buttons |-> 0]
    /\ press_events = [b \in Buttons |-> <<>>]
    /\ script = events

----------------------------------------------------------------------------
(* The event channel under load: the button tasks send a long run of events  *)
(* while the dispatcher receives at its own pace.                             *)

\* Runs of MaxBusEvents events, by the order in which the two button tasks
\* get their sends through: in turns, button 1 twice as often, and all of
\* button 1 first.
BusScripts ==
    {[i \in 1..MaxBusEvents |->
        IF i % 2 = 1 THEN SetButton(IF i % 4 = 1 THEN Short ELSE Long)
        ELSE AdjustButton(IF i % 4 = 2 THEN Short ELSE Long)],
     [i \in 1..MaxBusEvents |->
        IF i % 3 = 0 THEN AdjustButton(Short)
        ELSE SetButton(IF i % 3 = 1 THEN Long ELSE Short)],
     [i \in 1..MaxBusEvents |->
        IF i <= MaxBusEvents \div 2 THEN SetButton(IF i % 2 = 1 THEN Long ELSE Short)
        ELSE AdjustButton(IF i % 2 = 1 THEN Short ELSE Long)]}

InitBus ==
    \E s \in BusScripts : Booted(DeviceDate(23, 59, 59), DeviceDate(23, 59, 59), s)

NextBus ==
    \/ ScriptedEvent
    \/ ProcessEvents

SpecBus == InitBus /\ [][NextBus]_vars

----------------------------------------------------------------------------
(* The display task on the clock of its own 20 s Timer.  Time passes in      *)
(* steps of half the Timer's length, and stands still while the display task *)
(* is due: the executor polls a woken task long before 10 s have passed.     *)

\* a select whose Timer runs out only after twice its length
select_refresh_late(elapsed, slot) ==
    IF elapsed >= 2 * SCREEN_TIMEOUT_MS THEN "First"
    ELSE IF slot # None THEN "Second"
    ELSE "Pending"

\* select(Timer::after(20 s), SCREEN_REFRESH_SIGNAL.wait()): the Timer is
\* polled first
select_refresh(elapsed, slot) ==
    IF elapsed >= SCREEN_TIMEOUT_MS THEN "First"
    ELSE IF slot # None THEN "Second"
    ELSE "Pending"

ScreenTimerExpires ==
    /\ select_refresh(timer["screen_update"], SCREEN_REFRESH_SIGNAL) = "First"
    /\ ScreenTimeout

ScreenRequest ==
    /\ select_refresh(timer["screen_update"], SCREEN_REFRESH_SIGNAL) = "Second"
    /\ ScreenSignal

ScreenTimePasses ==
    /\ pc["screen_update"] = "select"
    /\ select_refresh(timer["screen_update"], SCREEN_REFRESH_SIGNAL) = "Pending"
    /\ timer' = [timer EXCEPT !["screen_update"] = @ + SCREEN_TIMEOUT_MS \div 2]
    /\ UNCHANGED <<cells, EVENT_CHANNEL, screen, blink_frame, pc, pins, clocks,
                   sent, script>>

\* shared times whose next tick changes the digits on display
StaleTimes == {DeviceDate(h, 59, 59) : h \in {9, 19, 23}}

InitStaleness ==
    \E time \in StaleTimes : Booted(time, time, <<AdjustButton(Short)>>)

NextStaleness ==
    \/ RunTime
    \/ ScriptedEvent
    \/ ProcessEvents
    \/ ScreenStart
    \/ ScreenTimePasses
    \/ ScreenTimerExpires
    \/ ScreenRequest

\* Every task that is woken is polled, and time passes; the press of a button
\* is not bound to happen.
SpecStaleness ==
    /\ InitStaleness
    /\ [][NextStaleness]_vars
    /\ WF_vars(RunTime)
    /\ WF_vars(ProcessEvents)
    /\ WF_vars(ScreenStart)
    /\ WF_vars(ScreenTimePasses)
    /\ WF_vars(ScreenTimerExpires)
    /\ WF_vars(ScreenRequest)

----------------------------------------------------------------------------
(* The Set button, the dispatcher and the blink driver on one clock.  Only   *)
(* the Set button moves the mode.  Time passes for all armed Timers alike,   *)
(* by the length of the debounce or by half the blink period, never past the *)
(* end of an armed Timer, and stands still while a task is due.              *)

\* the length of the Timer task t waits on, 0 if it waits on none
armed(t) ==
    IF t = "blink_task" THEN (IF pc[t] = "sleep" THEN BLINK_MS ELSE 0)
    ELSE IF t \in Buttons
    THEN (IF pc[t] = "settle" THEN DEBOUNCE_MS
          ELSE IF pc[t] = "hold" THEN LONG_PRESS_MS ELSE 0)
    ELSE 0

\* the first iteration of blink_task is due at once, the later ones when the
\* 500 ms Timer ends
BlinkDue ==
    pc["blink_task"] = "start" \/ timer["blink_task"] >= BLINK_MS

BlinkTimerExpires ==
    /\ BlinkDue
    /\ BlinkTask

TimePasses(b, dt) ==
    /\ ~Due(b)
    /\ ~BlinkDue
    /\ EVENT_CHANNEL = <<>>
    /\ \A t \in {b, "blink_task"} : armed(t) > 0 => timer[t] + dt <= armed(t)
    /\ timer' = [t \in Timed |->
                    IF t \in {b, "blink_task"} /\ armed(t) > 0
                    THEN timer[t] + dt ELSE timer[t]]
    /\ low_ms' = [low_ms EXCEPT ![b] =
                    IF pin[b] = High THEN @
                    ELSE IF @ + dt < HoldCap THEN @ + dt ELSE HoldCap]
    /\ UNCHANGED <<cells, EVENT_CHANNEL, screen, blink_frame, pc, pin, presses,
                   returns, press_events, clocks, sent, script>>

InitBlink ==
    \E time \in RtcPowerUpTimes : Booted(time, time, <<>>)

NextBlink ==
    \/ \E b \in {"button1_task"} :
          \/ ButtonStart(b)
          \/ ButtonLow(b)
          \/ ButtonSettle(b)
          \/ ButtonClassify(b)
          \/ ButtonSend(b)
          \/ ButtonReleased(b)
          \/ PinFalls(b)
          \/ PinRises(b)
          \/ \E dt \in {DEBOUNCE_MS, BLINK_MS \div 2} : TimePasses(b, dt)
    \/ ProcessEvents
    \/ BlinkTimerExpires

SpecBlink == InitBlink /\ [][NextBlink]_vars

----------------------------------------------------------------------------
(* Device errors.  Every call on the persistent clock and every write to the *)
(* display is unwrapped (lines 96, 204, 222 and clocklib draw_segment), so a *)
(* failed call panics; the panic handler (panic_probe, line 30) never        *)
(* returns, and on the single executor thread no task is polled again.       *)

\* an unwrap that drops the error and lets the task go on
panic_ignored(task) == pc

\* unwrap on an Err: the task stops inside the call
panic(task) == [pc EXCEPT ![task] = "panicked"]

\* no task has panicked
Running == \A t \in Tasks : pc[t] # "panicked"

draw_symbol(task) == <<task, "draw_symbol">>

\* sync_time: rtc.get_datetime() fails
SyncTimeFails ==
    /\ Running
    /\ rtc_access' = rtc_access \cup {get_datetime("sync_time")}
    /\ failed' = Some(get_datetime("sync_time"))
    /\ pc' = panic("sync_time")
    /\ UNCHANGED <<CURRENT_STATE, CURRENT_TIME, CURRENT_BRIGHTNESS,
                   SCREEN_REFRESH_SIGNAL, rtc, sched, pending, matched,
                   EVENT_CHANNEL, screen, blink_frame, inputs, clocks, sent,
                   script>>

\* process_events: Adjust-Short is received in SettingTime and, in
\* advance_time, rtc.get_datetime() fails, or rtc.set_datetime() fails, the
\* device then holding the old or the edited time
AdvanceTimeFails ==
    /\ Running
    /\ Spawned
    /\ EVENT_CHANNEL # <<>>
    /\ Head(EVENT_CHANNEL) = AdjustButton(Short)
    /\ IsSettingTime(CURRENT_STATE)
    /\ EVENT_CHANNEL' = Tail(EVENT_CHANNEL)
    /\ matched' = Some(<<Head(EVENT_CHANNEL), CURRENT_STATE>>)
    /\ \/ /\ failed' = Some(get_datetime("process_events"))
          /\ rtc_access' = rtc_access \cup {get_datetime("process_events")}
          /\ rtc' = rtc
       \/ /\ failed' = Some(set_datetime("process_events"))
          /\ rtc_access' = rtc_access \cup {get_datetime("process_events"),
                                             set_datetime("process_events")}
          /\ rtc' \in {rtc, advance_time(CURRENT_STATE[2], Shared).rtc}
    /\ pc' = panic("process_events")
    /\ UNCHANGED <<CURRENT_STATE, CURRENT_TIME, CURRENT_BRIGHTNESS,
                   SCREEN_REFRESH_SIGNAL, sched, pending, screen, blink_frame,
                   inputs, clocks, sent, script>>

\* screen_update: a wake-up (or the start) whose render pass fails at a write
\* to the display after drawn of the four digits; the digit being drawn is
\* left as it was
DrawFails(drawn) ==
    /\ Running
    /\ \/ /\ Spawned
          /\ pc["screen_update"] = "start"
          /\ UNCHANGED <<SCREEN_REFRESH_SIGNAL, pending, coalesced, blink>>
       \/ /\ pc["screen_update"] = "select"
          /\ blink' = wake(Timeout, blink)
          /\ UNCHANGED <<SCREEN_REFRESH_SIGNAL, pending, coalesced>>
       \/ /\ pc["screen_update"] = "select"
          /\ SCREEN_REFRESH_SIGNAL # None
          /\ SCREEN_REFRESH_SIGNAL' = take(SCREEN_REFRESH_SIGNAL)
          /\ coalesced' = pending
          /\ pending' = 0
          /\ blink' = wake(SCREEN_REFRESH_SIGNAL[2], blink)
    /\ frame_buffer' =
          [i \in 1..4 |->
              IF i <= drawn
              THEN render(CURRENT_TIME, CURRENT_BRIGHTNESS, blink')[i]
              ELSE frame_buffer[i]]
    /\ failed' = Some(draw_symbol("screen_update"))
    /\ pc' = panic("screen_update")
    /\ UNCHANGED <<CURRENT_STATE, CURRENT_TIME, CURRENT_BRIGHTNESS, rtc,
                   rtc_access, sched, matched, EVENT_CHANNEL, blink_frame,
                   inputs, clocks, sent, script>>

\* the presses that lead to an edit
FaultScript == <<SetButton(Long), AdjustButton(Short)>>

InitFaults ==
    \E reading \in RtcPowerUpTimes : Constructed(reading, FaultScript)

NextFaults ==
    \/ Running /\ SyncTime
    \/ Running /\ RunTime
    \/ Running /\ ScriptedEvent
    \/ Running /\ ProcessEvents
    \/ Running /\ BlinkTask
    \/ Running /\ ScreenStart
    \/ Running /\ ScreenTimeout
    \/ Running /\ ScreenSignal
    \/ SyncTimeFails
    \/ AdvanceTimeFails
    \/ \E drawn \in 0..3 : DrawFails(drawn)

SpecFaults == InitFaults /\ [][NextFaults]_vars

----------------------------------------------------------------------------
(* The tasks at the grain of their awaits.  The executor polls one task at   *)
(* a time; the task runs until an await that is pending, and only then is    *)
(* another task polled.  Mutex::lock completes at once on a free Mutex and   *)
(* is pending on a held one; recv is pending on an empty channel, wait on an *)
(* empty Signal, a Timer just armed always.  Each action below runs a task   *)
(* from one await to the next.  The calls on the RTC and on the display are  *)
(* blocking and have no await in them.                                       *)

\* Mutex::lock completing for task t
acquire(h, l, t) == [h EXCEPT ![l] = Some(t)]

\* a guard that is leaked instead of dropped
release_never(h, l) == h

\* a MutexGuard dropped: at the end of its statement or block
release(h, l) == [h EXCEPT ![l] = None]

\* the Mutex whose lock() a position is the await of
awaited(position) ==
    IF position \in {"read_rtc", "advance_time_rtc"} THEN Some("rtc")
    ELSE IF position \in {"store_time", "tick", "read_time", "advance_time_store"}
    THEN Some("CURRENT_TIME")
    ELSE IF position \in {"on_event", "to_state_read", "to_state_write",
                          "read_state"}
    THEN Some("CURRENT_STATE")
    ELSE IF position \in {"read_brightness", "adjust_brightness"}
    THEN Some("CURRENT_BRIGHTNESS")
    ELSE None

\* the await task t stands at completes when polled now
ready(t) ==
    IF awaited(pc[t]) # None THEN held[awaited(pc[t])[2]] = None
    ELSE IF pc[t] = "recv" THEN EVENT_CHANNEL # <<>>
    ELSE IF pc[t] = "select" THEN SCREEN_REFRESH_SIGNAL # None
    ELSE FALSE

\* a task that gives way at every await, pending or not
suspends_at_every_await(t) == TRUE

\* the polled task returns Pending: its await does not complete
suspends(t) == ~ready(t)

\* the executor goes on polling t (or takes it from the run queue) and its
\* await at position completes
Turn(t, position) ==
    /\ running \in {None, Some(t)}
    /\ pc[t] = position
    /\ ready(t)

\* a Timer of t ends, or t is polled for the first time, while no task runs
Woken(t, position) ==
    /\ running = None
    /\ Spawned
    /\ pc[t] = position

\* t runs on to its next await
Goes(t, position) ==
    /\ pc' = [pc EXCEPT ![t] = position]
    /\ running' = Some(t)

\* what no step of a task at this grain touches
untouched == <<failed, inputs, sent, script, rtc_seconds>>

\* the polled task returns Pending and the executor is free again
Yield(t) ==
    /\ running = Some(t)
    /\ suspends(t)
    /\ running' = None
    /\ UNCHANGED <<untouched, CURRENT_STATE, CURRENT_TIME, CURRENT_BRIGHTNESS,
                   SCREEN_REFRESH_SIGNAL, pending, rtc, rtc_access, held,
                   local, matched, EVENT_CHANNEL, screen, blink_frame, pc,
                   ticks>>

\* sync_time: the 10 min Timer ends (line 104); the loop starts over
SyncTimeWakes ==
    /\ Woken("sync_time", "sleep")
    /\ Goes("sync_time", "read_rtc")
    /\ local' = [local EXCEPT !.synced_time = None]
    /\ UNCHANGED <<untouched, CURRENT_STATE, CURRENT_TIME, CURRENT_BRIGHTNESS,
                   SCREEN_REFRESH_SIGNAL, pending, rtc, rtc_access, held,
                   matched, EVENT_CHANNEL, screen, blink_frame, ticks>>

\* sync_time: rtc.lock() completes, the device is read, the guard dropped
\* (lines 94-97)
SyncTimeReads ==
    /\ Turn("sync_time", "read_rtc")
    /\ local' = [local EXCEPT !.synced_time = Some(rtc)]
    /\ rtc_access' = rtc_access \cup {get_datetime("sync_time")}
    /\ held' = release(acquire(held, "rtc", "sync_time"), "rtc")
    /\ Goes("sync_time", "store_time")
    /\ UNCHANGED <<untouched, CURRENT_STATE, CURRENT_TIME, CURRENT_BRIGHTNESS,
                   SCREEN_REFRESH_SIGNAL, pending, rtc, matched, EVENT_CHANNEL,
                   screen, blink_frame, ticks>>

\* sync_time: CURRENT_TIME.lock() completes, the reading is stored, the guard
\* dropped, the Timer armed (lines 99-104)
SyncTimeStores ==
    /\ Turn("sync_time", "store_time")
    /\ CURRENT_TIME' = local.synced_time[2]
    /\ held' = release(acquire(held, "CURRENT_TIME", "sync_time"),
                       "CURRENT_TIME")
    /\ Goes("sync_time", "sleep")
    /\ UNCHANGED <<untouched, CURRENT_STATE, CURRENT_BRIGHTNESS,
                   SCREEN_REFRESH_SIGNAL, pending, rtc, rtc_access, local,
                   matched, EVENT_CHANNEL, screen, blink_frame, ticks>>

\* run_time: the Ticker ticks (line 339); the loop starts over
RunTimeWakes ==
    /\ Woken("run_time", "ticker")
    /\ ticks < MaxTicks
    /\ Goes("run_time", "tick")
    /\ UNCHANGED <<untouched, CURRENT_STATE, CURRENT_TIME, CURRENT_BRIGHTNESS,
                   SCREEN_REFRESH_SIGNAL, pending, rtc, rtc_access, held,
                   local, matched, EVENT_CHANNEL, screen, blink_frame, ticks>>

\* run_time: CURRENT_TIME.lock() completes, the time is advanced under the
\* guard, the guard dropped (lines 317-337)
RunTimeTicks ==
    /\ Turn("run_time", "tick")
    /\ CURRENT_TIME' = run_time(CURRENT_TIME)
    /\ ticks' = ticks + 1
    /\ held' = release(acquire(held, "CURRENT_TIME", "run_time"),
                       "CURRENT_TIME")
    /\ Goes("run_time", "ticker")
    /\ UNCHANGED <<untouched, CURRENT_STATE, CURRENT_BRIGHTNESS,
                   SCREEN_REFRESH_SIGNAL, pending, rtc, rtc_access, local,
                   matched, EVENT_CHANNEL, screen, blink_frame>>

\* process_events: recv completes with the oldest event (line 307)
EventReceived ==
    /\ running \in {None, Some("process_events")}
    /\ Spawned
    /\ pc["process_events"] \in {"start", "recv"}
    /\ EVENT_CHANNEL # <<>>
    /\ local' = [local EXCEPT !.event = Some(Head(EVENT_CHANNEL))]
    /\ EVENT_CHANNEL' = Tail(EVENT_CHANNEL)
    /\ Goes("process_events", "on_event")
    /\ UNCHANGED <<untouched, CURRENT_STATE, CURRENT_TIME, CURRENT_BRIGHTNESS,
                   SCREEN_REFRESH_SIGNAL, pending, rtc, rtc_access, held,
                   matched, screen, blink_frame, ticks>>

\* on_event's match (lines 172-199): the await the arm taken goes to, the
\* state it hands to to_state, and the request it raises before that
arm(event, state) ==
    IF event = SetButton(Long) /\ state = Idle
    THEN [next |-> "to_state_read", new_state |-> Some(SettingTime(0)),
          request |-> None]
    ELSE IF event = SetButton(Long) /\ IsSettingTime(state)
    THEN [next |-> "to_state_read", new_state |-> Some(Idle), request |-> None]
    ELSE IF event = SetButton(Short) /\ IsSettingTime(state)
    THEN LET next_digit == (state[2] + 1) % 3
         IN IF next_digit = 2
            THEN [next |-> "to_state_read", new_state |-> Some(Idle),
                  request |-> Some(Normal)]
            ELSE [next |-> "to_state_read",
                  new_state |-> Some(SettingTime(next_digit)), request |-> None]
    ELSE IF event = AdjustButton(Short) /\ IsSettingTime(state)
    THEN [next |-> "advance_time_rtc", new_state |-> None, request |-> None]
    ELSE IF event = AdjustButton(Short) /\ state = Idle
    THEN [next |-> "adjust_brightness", new_state |-> None, request |-> None]
    ELSE [next |-> "recv", new_state |-> None, request |-> None]

\* on_event returns: its locals and those of its callees are dropped
returned(l) ==
    [l EXCEPT !.event = None, !.state = None, !.new_state = None,
              !.current = None]

\* on_event: CURRENT_STATE.lock() completes, the state is cloned, the guard
\* dropped, and the arm is entered up to its first await (lines 170-198)
OnEventMatches ==
    /\ Turn("process_events", "on_event")
    /\ LET event == local.event[2]
           a == arm(event, CURRENT_STATE)
           s == IF a.request = None THEN Shared
                ELSE signal(Shared, a.request[2])
       IN /\ matched' = Some(<<event, CURRENT_STATE>>)
          /\ SCREEN_REFRESH_SIGNAL' = s.signal
          /\ pending' = s.pending
          /\ local' = IF a.next = "recv" THEN returned(local)
                      ELSE [local EXCEPT !.state = Some(CURRENT_STATE),
                                         !.new_state = a.new_state]
          /\ Goes("process_events", a.next)
    /\ held' = release(acquire(held, "CURRENT_STATE", "process_events"),
                       "CURRENT_STATE")
    /\ UNCHANGED <<untouched, CURRENT_STATE, CURRENT_TIME, CURRENT_BRIGHTNESS,
                   rtc, rtc_access, EVENT_CHANNEL, screen, blink_frame, ticks>>

\* to_state: the first lock of CURRENT_STATE, for the log line (234-235)
ToStateLogs ==
    /\ Turn("process_events", "to_state_read")
    /\ held' = release(acquire(held, "CURRENT_STATE", "process_events"),
                       "CURRENT_STATE")
    /\ Goes("process_events", "to_state_write")
    /\ UNCHANGED <<untouched, CURRENT_STATE, CURRENT_TIME, CURRENT_BRIGHTNESS,
                   SCREEN_REFRESH_SIGNAL, pending, rtc, rtc_access, local,
                   matched, EVENT_CHANNEL, screen, blink_frame, ticks>>

\* to_state: the second lock of CURRENT_STATE and the write (237-238);
\* on_event returns and process_events is at recv again
ToStateWrites ==
    /\ Turn("process_events", "to_state_write")
    /\ CURRENT_STATE' = to_state(local.new_state[2], Shared).state
    /\ held' = release(acquire(held, "CURRENT_STATE", "process_events"),
                       "CURRENT_STATE")
    /\ local' = returned(local)
    /\ Goes("process_events", "recv")
    /\ UNCHANGED <<untouched, CURRENT_TIME, CURRENT_BRIGHTNESS,
                   SCREEN_REFRESH_SIGNAL, pending, rtc, rtc_access, matched,
                   EVENT_CHANNEL, screen, blink_frame, ticks>>

\* advance_time: rtc.lock() completes, the device is read, the reading
\* edited and written back (203-222); the guard is kept
AdvanceTimeWrites ==
    /\ Turn("process_events", "advance_time_rtc")
    /\ LET s == advance_time(local.state[2][2], Shared)
       IN /\ rtc' = s.rtc
          /\ rtc_access' = s.access
          /\ local' = [local EXCEPT !.current = Some(s.time)]
    /\ held' = acquire(held, "rtc", "process_events")
    /\ Goes("process_events", "advance_time_store")
    /\ UNCHANGED <<untouched, CURRENT_STATE, CURRENT_TIME, CURRENT_BRIGHTNESS,
                   SCREEN_REFRESH_SIGNAL, pending, matched, EVENT_CHANNEL,
                   screen, blink_frame, ticks>>

\* advance_time: CURRENT_TIME.lock() completes under the guard of the RTC,
\* the edited time is stored, TimeChanged raised, both guards dropped
\* (223-225); on_event returns
AdvanceTimeStores ==
    /\ Turn("process_events", "advance_time_store")
    /\ CURRENT_TIME' = local.current[2]
    /\ LET s == signal(Shared, TimeChanged)
       IN /\ SCREEN_REFRESH_SIGNAL' = s.signal
          /\ pending' = s.pending
    /\ held' = release(release(acquire(held, "CURRENT_TIME", "process_events"),
                               "CURRENT_TIME"), "rtc")
    /\ local' = returned(local)
    /\ Goes("process_events", "recv")
    /\ UNCHANGED <<untouched, CURRENT_STATE, CURRENT_BRIGHTNESS, rtc,
                   rtc_access, matched, EVENT_CHANNEL, screen, blink_frame,
                   ticks>>

\* adjust_brightness: CURRENT_BRIGHTNESS.lock() completes, the level moves
\* on, Normal is raised, the guard dropped (228-231); on_event returns
BrightnessAdjusted ==
    /\ Turn("process_events", "adjust_brightness")
    /\ LET s == adjust_brightness(Shared)
       IN /\ CURRENT_BRIGHTNESS' = s.brightness
          /\ SCREEN_REFRESH_SIGNAL' = s.signal
          /\ pending' = s.pending
    /\ held' = release(acquire(held, "CURRENT_BRIGHTNESS", "process_events"),
                       "CURRENT_BRIGHTNESS")
    /\ local' = returned(local)
    /\ Goes("process_events", "recv")
    /\ UNCHANGED <<untouched, CURRENT_STATE, CURRENT_TIME, rtc, rtc_access,
                   matched, EVENT_CHANNEL, screen, blink_frame, ticks>>

\* blink_task: its first poll, or its 500 ms Timer ends (line 256)
BlinkTaskWakes ==
    /\ pc["blink_task"] \in {"start", "sleep"}
    /\ Woken("blink_task", pc["blink_task"])
    /\ Goes("blink_task", "read_state")
    /\ UNCHANGED <<untouched, CURRENT_STATE, CURRENT_TIME, CURRENT_BRIGHTNESS,
                   SCREEN_REFRESH_SIGNAL, pending, rtc, rtc_access, held,
                   local, matched, EVENT_CHANNEL, screen, blink_frame, ticks>>

\* blink_task: CURRENT_STATE.lock() completes, the state is cloned, the guard
\* dropped, the request raised if due, the Timer armed (246-256)
BlinkTaskReads ==
    /\ Turn("blink_task", "read_state")
    /\ LET r == blink_task(Shared, blink_frame)
       IN /\ SCREEN_REFRESH_SIGNAL' = r[1].signal
          /\ pending' = r[1].pending
          /\ blink_frame' = r[2]
    /\ held' = release(acquire(held, "CURRENT_STATE", "blink_task"),
                       "CURRENT_STATE")
    /\ Goes("blink_task", "sleep")
    /\ UNCHANGED <<untouched, CURRENT_STATE, CURRENT_TIME, CURRENT_BRIGHTNESS,
                   rtc, rtc_access, local, matched, EVENT_CHANNEL, screen,
                   ticks>>

\* screen_update: its first poll
ScreenFirstPoll ==
    /\ Woken("screen_update", "start")
    /\ Goes("screen_update", "read_time")
    /\ UNCHANGED <<untouched, CURRENT_STATE, CURRENT_TIME, CURRENT_BRIGHTNESS,
                   SCREEN_REFRESH_SIGNAL, pending, rtc, rtc_access, held,
                   local, matched, EVENT_CHANNEL, screen, blink_frame, ticks>>

\* screen_update: the 20 s Timer of the select ends (Either::First)
ScreenTimerEnds ==
    /\ Woken("screen_update", "select")
    /\ blink' = wake(Timeout, blink)
    /\ Goes("screen_update", "read_time")
    /\ UNCHANGED <<untouched, CURRENT_STATE, CURRENT_TIME, CURRENT_BRIGHTNESS,
                   SCREEN_REFRESH_SIGNAL, pending, rtc, rtc_access, held,
                   local, matched, EVENT_CHANNEL, frame_buffer, coalesced,
                   blink_frame, ticks>>

\* screen_update: the wait of the select completes with the request in the
\* slot (Either::Second)
ScreenTakes ==
    /\ Turn("screen_update", "select")
    /\ SCREEN_REFRESH_SIGNAL' = take(SCREEN_REFRESH_SIGNAL)
    /\ coalesced' = pending
    /\ pending' = 0
    /\ blink' = wake(SCREEN_REFRESH_SIGNAL[2], blink)
    /\ Goes("screen_update", "read_time")
    /\ UNCHANGED <<untouched, CURRENT_STATE, CURRENT_TIME, CURRENT_BRIGHTNESS,
                   rtc, rtc_access, held, local, matched, EVENT_CHANNEL,
                   frame_buffer, blink_frame, ticks>>

\* screen_update: CURRENT_TIME.lock() completes, the time is copied, the
\* guard dropped (line 41)
ScreenReadsTime ==
    /\ Turn("screen_update", "read_time")
    /\ local' = [local EXCEPT !.time = Some(CURRENT_TIME)]
    /\ held' = release(acquire(held, "CURRENT_TIME", "screen_update"),
                       "CURRENT_TIME")
    /\ Goes("screen_update", "read_brightness")
    /\ UNCHANGED <<untouched, CURRENT_STATE, CURRENT_TIME, CURRENT_BRIGHTNESS,
                   SCREEN_REFRESH_SIGNAL, pending, rtc, rtc_access, matched,
                   EVENT_CHANNEL, screen, blink_frame, ticks>>

\* screen_update: CURRENT_BRIGHTNESS.lock() completes, the level is copied,
\* the guard dropped, the four digits drawn and the select armed (42-79)
ScreenDraws ==
    /\ Turn("screen_update", "read_brightness")
    /\ frame_buffer' = render(local.time[2], CURRENT_BRIGHTNESS, blink)
    /\ local' = [local EXCEPT !.time = None]
    /\ held' = release(acquire(held, "CURRENT_BRIGHTNESS", "screen_update"),
                       "CURRENT_BRIGHTNESS")
    /\ Goes("screen_update", "select")
    /\ UNCHANGED <<untouched, CURRENT_STATE, CURRENT_TIME, CURRENT_BRIGHTNESS,
                   SCREEN_REFRESH_SIGNAL, pending, rtc, rtc_access, matched,
                   EVENT_CHANNEL, blink, coalesced, blink_frame, ticks>>

\* a button task is polled, sends the next event and is pending again
ButtonSends ==
    /\ running = None
    /\ ScriptedEvent

\* runs of presses that between them take the dispatcher through every arm
\* of on_event: both edits; a brightness step and a completed edit; a
\* cancelled edit and a press that does nothing
LockScripts ==
    {<<SetButton(Long), AdjustButton(Short), SetButton(Short),
       AdjustButton(Short)>>,
     <<AdjustButton(Short), SetButton(Long), SetButton(Short),
       SetButton(Short)>>,
     <<SetButton(Long), SetButton(Long), AdjustButton(Long)>>}

InitLocks ==
    \E time \in RtcPowerUpTimes, s \in LockScripts : Booted(time, time, s)

SyncTimeSteps == SyncTimeWakes \/ SyncTimeReads \/ SyncTimeStores

RunTimeSteps == RunTimeWakes \/ RunTimeTicks

ProcessEventsSteps ==
    \/ EventReceived
    \/ OnEventMatches
    \/ ToStateLogs
    \/ ToStateWrites
    \/ AdvanceTimeWrites
    \/ AdvanceTimeStores
    \/ BrightnessAdjusted

BlinkTaskSteps == BlinkTaskWakes \/ BlinkTaskReads

ScreenUpdateSteps ==
    \/ ScreenFirstPoll
    \/ ScreenTimerEnds
    \/ ScreenTakes
    \/ ScreenReadsTime
    \/ ScreenDraws

NextLocks ==
    \/ SyncTimeSteps
    \/ RunTimeSteps
    \/ ProcessEventsSteps
    \/ BlinkTaskSteps
    \/ ScreenUpdateSteps
    \/ ButtonSends
    \/ \E t \in Tasks : Yield(t)

SpecLocks == InitLocks /\ [][NextLocks]_vars

\* The executor polls the woken tasks in the order of its run queue: a task
\* that is polled runs on to a pending await, and a task that is woken again
\* and again is polled.
SpecLocksFair ==
    /\ InitLocks
    /\ [][NextLocks]_vars
    /\ WF_vars(\E t \in Tasks : Yield(t))
    /\ WF_vars(SyncTimeSteps)
    /\ WF_vars(RunTimeSteps)
    /\ WF_vars(BlinkTaskSteps)
    /\ WF_vars(ScreenUpdateSteps)
    /\ SF_vars(ProcessEventsSteps)

----------------------------------------------------------------------------
(* Properties *)

Modes == {Idle, SettingTime(0), SettingTime(1)}

\* number of events the dispatcher has handled
Dispatched == sent - Len(EVENT_CHANNEL)

\* the dispatcher has last handled event e in mode m
Handled(e, m) == matched = Some(<<e, m>>)

\* this step is the dispatcher handling event e
Dispatching(e) ==
    /\ EVENT_CHANNEL # <<>>
    /\ Head(EVENT_CHANNEL) = e
    /\ EVENT_CHANNEL' = Tail(EVENT_CHANNEL)

InRange(t) ==
    /\ t.seconds \in 0..59
    /\ t.minutes \in 0..59
    /\ t.hours \in 0..23

\* C1: a Set-Long event handled in Idle leaves Mode = SettingTime(0); a
\* Set-Long event handled in SettingTime(d), d = 0 or 1, leaves Mode = Idle.
\* (Mode is written by the dispatcher only, so it holds until the next event.)
C1_SetLongToggles ==
    /\ Handled(SetButton(Long), Idle) => CURRENT_STATE = SettingTime(0)
    /\ \A d \in 0..1 :
         Handled(SetButton(Long), SettingTime(d)) => CURRENT_STATE = Idle

C1_Witness ==
    /\ Handled(SetButton(Long), SettingTime(1))
    /\ CURRENT_STATE = Idle

\* C2 as claimed: the first Set-Short event dispatched from Idle moves Mode to
\* SettingTime(0).
C2_FirstSetShortEnters ==
    (Dispatched = 1 /\ Handled(SetButton(Short), Idle))
        => CURRENT_STATE = SettingTime(0)

\* C2 amended: no Set-Short event handled in Idle moves Mode; the first one,
\* like every later one, leaves Mode = Idle.
C2_SetShortKeepsIdle ==
    Handled(SetButton(Short), Idle) => CURRENT_STATE = Idle

C2_Witness ==
    /\ Dispatched = 2
    /\ Handled(SetButton(Short), Idle)
    /\ CURRENT_STATE = Idle
    /\ CURRENT_BRIGHTNESS = INITIAL_BRIGHTNESS

\* C3: Set-Short takes SettingTime(0) to SettingTime(1), SettingTime(1) to
\* Idle and Idle to Idle, so three in a row from SettingTime(0) end in Idle;
\* Mode is always Idle, SettingTime(0) or SettingTime(1), and neither a raised
\* Blink request nor the display's remembered blink carries another position.
C3_NoThirdPosition ==
    /\ CURRENT_STATE \in Modes
    /\ Handled(SetButton(Short), SettingTime(0)) => CURRENT_STATE = SettingTime(1)
    /\ Handled(SetButton(Short), SettingTime(1)) => CURRENT_STATE = Idle
    /\ Handled(SetButton(Short), Idle) => CURRENT_STATE = Idle
    /\ (SCREEN_REFRESH_SIGNAL # None /\ IsBlink(SCREEN_REFRESH_SIGNAL[2]))
         => SCREEN_REFRESH_SIGNAL[2][2].position \in 0..1
    /\ blink # None => blink[2].position \in 0..1

C3_Witness ==
    /\ Handled(SetButton(Short), SettingTime(1))
    /\ CURRENT_STATE = Idle
    /\ blink # None
    /\ blink[2].position = 1

\* C4 as claimed: Adjust-Short in SettingTime(0) adds one minute (mod 60) to
\* the shared time as it was when the event was dispatched, zeroes the seconds
\* and keeps the hours; in SettingTime(1) it adds one hour (mod 24) to it and
\* keeps minutes and seconds; Mode is unchanged.
C4_EditsSharedTime ==
    [][(Dispatching(AdjustButton(Short)) /\ IsSettingTime(CURRENT_STATE)) =>
         /\ CURRENT_STATE' = CURRENT_STATE
         /\ CURRENT_STATE = SettingTime(0) =>
              /\ CURRENT_TIME'.minutes = (CURRENT_TIME.minutes + 1) % 60
              /\ CURRENT_TIME'.seconds = 0
              /\ CURRENT_TIME'.hours = CURRENT_TIME.hours
         /\ CURRENT_STATE = SettingTime(1) =>
              /\ CURRENT_TIME'.hours = (CURRENT_TIME.hours + 1) % 24
              /\ CURRENT_TIME'.minutes = CURRENT_TIME.minutes
              /\ CURRENT_TIME'.seconds = CURRENT_TIME.seconds]_vars

\* C4 amended: the same, with "before" the reading of the persistent clock
\* taken by the dispatch instead of the shared time; the edited reading
\* becomes the shared time.
C4_EditsRtcReading ==
    [][(Dispatching(AdjustButton(Short)) /\ IsSettingTime(CURRENT_STATE)) =>
         /\ CURRENT_STATE' = CURRENT_STATE
         /\ CURRENT_STATE = SettingTime(0) =>
              /\ CURRENT_TIME'.minutes = (rtc.minutes + 1) % 60
              /\ CURRENT_TIME'.seconds = 0
              /\ CURRENT_TIME'.hours = rtc.hours
         /\ CURRENT_STATE = SettingTime(1) =>
              /\ CURRENT_TIME'.hours = (rtc.hours + 1) % 24
              /\ CURRENT_TIME'.minutes = rtc.minutes
              /\ CURRENT_TIME'.seconds = rtc.seconds]_vars

C4_Witness ==
    /\ Handled(AdjustButton(Short), SettingTime(1))
    /\ CURRENT_STATE = SettingTime(1)
    /\ CURRENT_TIME.hours = 0
    /\ CURRENT_TIME.minutes = 59

C6_OneDetectionPerPress ==
    \A b \in Buttons :
        /\ returns[b] <= 1
        /\ Len(press_events[b]) <= returns[b]
        /\ pc[b] \in {"wait_low", "wait_high"} =>
             /\ returns[b] = (IF low_ms[b] >= DEBOUNCE_MS THEN 1 ELSE 0)
             /\ Len(press_events[b]) = returns[b]
        /\ pc[b] = "hold" => (returns[b] = 1 /\ low_ms[b] >= DEBOUNCE_MS)
        /\ pc[b] = "settle" => returns[b] = 0

\* two falling edges of pin 1, the first a bounce, and one event in all
C6_Witness ==
    /\ pc["button2_task"] = "start"
    /\ presses = 2
    /\ sent = 1
    /\ pc["button1_task"] = "wait_low"
    /\ pin["button1_task"] = High
    /\ returns["button1_task"] = 1
    /\ press_events["button1_task"] = <<SetButton(Short)>>

\* C7: once a pin has been low for the 50 ms of the debounce and the 3 s of
\* the threshold and the task is back at a wait for an edge, the task has
\* sent for that low period exactly one event, the Long event of its button,
\* and while the pin stays low, however long, it waits for the release.
C7_OneLongPerHold ==
    \A b \in Buttons :
        (low_ms[b] >= DEBOUNCE_MS + LONG_PRESS_MS
            /\ pc[b] \in {"wait_low", "wait_high"}) =>
          /\ press_events[b] = <<ButtonEvent(b, Long)>>
          /\ pin[b] = Low => pc[b] = "wait_high"

\* button 2 held for the longest time told apart, one AdjustButton(Long) sent
C7_Witness ==
    /\ low_ms["button2_task"] = HoldCap
    /\ pin["button2_task"] = Low
    /\ pc["button2_task"] = "wait_high"
    /\ press_events["button2_task"] = <<AdjustButton(Long)>>
    /\ \E i \in 1..Len(EVENT_CHANNEL) : EVENT_CHANNEL[i] = AdjustButton(Long)

\* C8: however many requests were raised since the display last took one,
\* one wake-up of the display takes them all: the slot is empty exactly when
\* no raise is outstanding, and the wake-up that takes a Normal request
\* standing for two raises draws one pass from the time and brightness
\* current at that moment, with no blink.
C8_OnePassForTwoRaises ==
    /\ [](SCREEN_REFRESH_SIGNAL = None <=> pending = 0)
    /\ [][(SCREEN_REFRESH_SIGNAL = Some(Normal) /\ pending = 2 /\ pending' = 0) =>
            /\ SCREEN_REFRESH_SIGNAL' = None
            /\ coalesced' = 2
            /\ blink' = None
            /\ frame_buffer' = render(CURRENT_TIME, CURRENT_BRIGHTNESS, None)]_vars

C8_Witness ==
    /\ sent = 2
    /\ EVENT_CHANNEL = <<>>
    /\ CURRENT_BRIGHTNESS = 5
    /\ coalesced = 2
    /\ SCREEN_REFRESH_SIGNAL = None
    /\ \A i \in 1..4 : frame_buffer[i].color = BRIGHTNESS_MAP[6]

\* the digits last drawn
Drawn == [i \in 1..4 |-> frame_buffer[i].digit]

\* the stages of the end-to-end run, by the number of events handled
EndToEndStages ==
    /\ Dispatched = 1 => CURRENT_STATE = SettingTime(0)
    /\ Dispatched = 4 => (CURRENT_TIME.minutes = 8 /\ CURRENT_TIME.seconds = 0)
    /\ Dispatched = 5 => CURRENT_STATE = SettingTime(1)
    /\ Dispatched = 6 => CURRENT_TIME.hours = 14
    /\ Dispatched = 7 => CURRENT_STATE = Idle
    /\ (Dispatched = 7 /\ pc["screen_update"] = "select"
          /\ SCREEN_REFRESH_SIGNAL = None) => Drawn = <<1, 4, 0, 8>>

\* C9 as claimed: from Mode = Idle and shared time 13:05:00, the run Set-Long,
\* Adjust-Short x3, Set-Short, Adjust-Short, Set-Short passes SettingTime(0),
\* minutes 08 with seconds 0, SettingTime(1), hours 14, Idle, and the display
\* ends on 1,4,0,8.
C9_EndToEnd == EndToEndStages

\* C9 amended: the same, when the persistent clock too reads 13:05:00 at the
\* start of the run.
C9_EndToEndFromRtc ==
    (rtc = DeviceDate(13, 5, 0)) => []EndToEndStages

C9_Witness ==
    /\ Dispatched = 7
    /\ script = <<>>
    /\ pc["screen_update"] = "select"
    /\ SCREEN_REFRESH_SIGNAL = None
    /\ Drawn = <<1, 4, 0, 8>>
    /\ CURRENT_TIME.hours = 14
    /\ CURRENT_TIME.minutes = 8
    /\ CURRENT_STATE = Idle

\* C10: the shared time is in range in every reachable state: seconds and
\* minutes in 0..59, hours in 0..23.  (A tick is one step: the value 60 it
\* passes through lives only inside run_time, under the lock.)
C10_TimeInRange == InRange(CURRENT_TIME) /\ InRange(rtc)

C10_Witness ==
    /\ ticks = 1
    /\ CURRENT_TIME.day = 7
    /\ CURRENT_TIME.hours = 0
    /\ CURRENT_TIME.minutes = 0
    /\ CURRENT_TIME.seconds = 0
    /\ CURRENT_STATE = SettingTime(0)

\* C11 as claimed: every call made on the persistent clock's handle is made
\* by the RTC sync task; the dispatcher never reads or writes the device.
C11_SyncTaskOwnsRtc ==
    \A a \in rtc_access : a[1] = "sync_time"

\* C11 amended: two tasks use the handle.  The RTC sync task only reads it;
\* the dispatcher reads and writes it, and only while it handles Adjust-Short
\* in SettingTime; no other task uses it, and the time held by the device
\* changes only by the device counting or by such a dispatch.
C11_RtcSharedWithDispatcher ==
    /\ [](rtc_access \subseteq {get_datetime("sync_time"),
                                get_datetime("process_events"),
                                set_datetime("process_events")})
    /\ [][(rtc_access' \ rtc_access # {} \/ (rtc' # rtc /\ rtc' # rtc_count(rtc))) =>
            \/ /\ UNCHANGED rtc
               /\ rtc_access' = rtc_access \cup {get_datetime("sync_time")}
               /\ CURRENT_TIME' = rtc
            \/ /\ Dispatching(AdjustButton(Short))
               /\ IsSettingTime(CURRENT_STATE)
               /\ rtc_access' = rtc_access \cup {get_datetime("process_events"),
                                                  set_datetime("process_events")}]_vars

C11_Witness ==
    /\ Handled(AdjustButton(Short), SettingTime(1))
    /\ rtc_access = {get_datetime("sync_time"), get_datetime("process_events"),
                     set_datetime("process_events")}
    /\ rtc.hours = 0
    /\ rtc.year = default_datetime.year

\* C12: when the dispatcher has handled Adjust-Short in SettingTime(d), it has
\* written the persistent clock, and the time the device then holds is the
\* edited time, the very value the dispatch stored as the shared time.
C12_WriteThrough ==
    [][(Dispatching(AdjustButton(Short)) /\ IsSettingTime(CURRENT_STATE)) =>
          /\ set_datetime("process_events") \in rtc_access'
          /\ rtc' = CURRENT_TIME'
          /\ rtc'.minutes = IF CURRENT_STATE = SettingTime(0)
                            THEN (rtc.minutes + 1) % 60 ELSE rtc.minutes
          /\ rtc'.hours = IF CURRENT_STATE = SettingTime(1)
                          THEN (rtc.hours + 1) % 24 ELSE rtc.hours]_vars

C12_Witness ==
    /\ Handled(AdjustButton(Short), SettingTime(0))
    /\ ticks = 1
    /\ rtc = CURRENT_TIME
    /\ rtc.hours = 23
    /\ rtc.minutes = 0
    /\ rtc.seconds = 0

\* C13: of the run s of events the button tasks send, the channel holds at
\* every moment exactly the events sent and not yet dispatched, in the order
\* sent, and the event the dispatcher handled last is the one sent just
\* before them: every event is dispatched once, in the order sent (so in the
\* order of its own button too).  The channel never holds more than 10, and
\* while it holds 10 no send completes: the sender keeps its event, which is
\* neither dropped nor written over another, and all pending events stay.
C13_EventBus ==
    /\ [](\E s \in BusScripts :
            /\ script = SubSeq(s, sent + 1, Len(s))
            /\ EVENT_CHANNEL = SubSeq(s, Dispatched + 1, sent)
            /\ Dispatched > 0 => matched[2][1] = s[Dispatched]
            /\ Len(EVENT_CHANNEL) <= CHANNEL_CAPACITY)
    /\ [][Len(EVENT_CHANNEL) = CHANNEL_CAPACITY =>
            /\ UNCHANGED <<sent, script>>
            /\ EVENT_CHANNEL' \in {EVENT_CHANNEL, Tail(EVENT_CHANNEL)}]_vars

\* the channel is full and a button task is suspended in send_event with the
\* next event, after the dispatcher has already handled one
C13_Witness ==
    /\ Len(EVENT_CHANNEL) = CHANNEL_CAPACITY
    /\ script # <<>>
    /\ Dispatched = 1
    /\ sent = CHANNEL_CAPACITY + 1

\* a Blink request is raised in this step
RaisesBlink ==
    /\ <<SCREEN_REFRESH_SIGNAL, pending>>' # <<SCREEN_REFRESH_SIGNAL, pending>>
    /\ SCREEN_REFRESH_SIGNAL' # None
    /\ IsBlink(SCREEN_REFRESH_SIGNAL'[2])

\* this step is an iteration of the blink driver that shows in its state
BlinkDriverRuns ==
    blink_frame' # blink_frame \/ pc'["blink_task"] # pc["blink_task"]

\* C14: a step that raises a Blink request is an iteration of the blink
\* driver taken with Mode = SettingTime (it carries Mode's position and the
\* driver's frame, advances the frame and touches nothing else), so no other
\* task raises one; an iteration of the blink driver taken with Mode = Idle
\* raises nothing and leaves the frame counter at 0.
C14_BlinkOnlyInSettingTime ==
    /\ [][RaisesBlink =>
            /\ IsSettingTime(CURRENT_STATE)
            /\ SCREEN_REFRESH_SIGNAL' =
                   Some(Blink(BlinkData(CURRENT_STATE[2], blink_frame)))
            /\ blink_frame' = (blink_frame + 1) % 2
            /\ pc' = [pc EXCEPT !["blink_task"] = "sleep"]
            /\ UNCHANGED <<CURRENT_STATE, CURRENT_TIME, CURRENT_BRIGHTNESS,
                           EVENT_CHANNEL, rtc, blink, frame_buffer, matched,
                           sent>>]_vars
    /\ [][(BlinkDriverRuns /\ CURRENT_STATE = Idle) =>
            /\ blink_frame' = 0
            /\ UNCHANGED <<SCREEN_REFRESH_SIGNAL, pending>>]_vars

\* the second request of an edit, raised at position 1
C14_Witness ==
    /\ CURRENT_STATE = SettingTime(1)
    /\ SCREEN_REFRESH_SIGNAL = Some(Blink(BlinkData(1, 1)))
    /\ blink_frame = 0
    /\ pending = 1

\* this step is a render pass of the display task that shows in its state
RenderPass ==
    \/ frame_buffer' # frame_buffer
    \/ blink' # blink
    \/ pc'["screen_update"] # pc["screen_update"]

\* the intensity every digit i (0..3) has after a render pass, given for which
\* remembered blink and digit the highlight is used
RendersWith(highlighted(_, _)) ==
    RenderPass =>
        \A i \in 0..3 :
            frame_buffer'[i + 1].color =
                IF blink' # None /\ highlighted(blink'[2], i) THEN HIGHLIGHT
                ELSE BRIGHTNESS_MAP[CURRENT_BRIGHTNESS + 1]

\* the highlight intensity is none of the brightness intensities
HighlightDistinct ==
    \A l \in DOMAIN BRIGHTNESS_MAP : BRIGHTNESS_MAP[l] # HIGHLIGHT

HighlightAsClaimed(b, i) ==
    \/ b.position = 0 /\ b.frame = 0 /\ i \in 2..3
    \/ b.position = 1 /\ b.frame = 1 /\ i \in 0..1

HighlightOnFirstFrame(b, i) ==
    \/ b.position = 0 /\ b.frame = 0 /\ i \in 2..3
    \/ b.position = 1 /\ b.frame = 0 /\ i \in 0..1

\* C15 as claimed: a render pass draws digits 2 and 3 with the highlight
\* exactly when the remembered blink has position 0 and frame 0, digits 0 and
\* 1 with the highlight exactly when it has position 1 and frame 1, and every
\* other digit, and every digit with no blink remembered, with the current
\* brightness.
C15_HighlightSecondFrame ==
    []HighlightDistinct /\ [][RendersWith(HighlightAsClaimed)]_vars

\* C15 amended: the same with digits 0 and 1 highlighted exactly when the
\* remembered blink has position 1 and frame 0: both positions are
\* highlighted on frame 0 and drawn with the current brightness on frame 1.
C15_HighlightFirstFrame ==
    []HighlightDistinct /\ [][RendersWith(HighlightOnFirstFrame)]_vars

\* position 1 on frame 0: the hours highlighted, the minutes at brightness 3
C15_Witness ==
    /\ blink = Some(BlinkData(1, 0))
    /\ CURRENT_BRIGHTNESS = INITIAL_BRIGHTNESS
    /\ frame_buffer[1].color = HIGHLIGHT
    /\ frame_buffer[2].color = HIGHLIGHT
    /\ frame_buffer[3].color = BRIGHTNESS_MAP[INITIAL_BRIGHTNESS + 1]
    /\ frame_buffer[4].color = BRIGHTNESS_MAP[INITIAL_BRIGHTNESS + 1]

\* the time of day in seconds
SecondsOfDay(t) == (t.hours * 60 + t.minutes) * 60 + t.seconds

\* C18: a tick taken on a valid shared time leaves, in one step, the valid
\* time one second later in the day, midnight following 23:59:59; the day
\* is incremented by that last tick of a day and by no other; month, year and
\* weekday are as before.
C18_TickAddsOneSecond ==
    [][(ticks' = ticks + 1 /\ InRange(CURRENT_TIME)) =>
          /\ InRange(CURRENT_TIME')
          /\ SecondsOfDay(CURRENT_TIME') =
                (SecondsOfDay(CURRENT_TIME) + 1) % (24 * 60 * 60)
          /\ CURRENT_TIME'.day =
                IF CURRENT_TIME.hours = 23 /\ CURRENT_TIME.minutes = 59
                      /\ CURRENT_TIME.seconds = 59
                THEN CURRENT_TIME.day + 1 ELSE CURRENT_TIME.day
          /\ CURRENT_TIME'.month = CURRENT_TIME.month
          /\ CURRENT_TIME'.year = CURRENT_TIME.year
          /\ CURRENT_TIME'.weekday = CURRENT_TIME.weekday]_vars

\* the tick from 23:59:59, copied from the device, to midnight of the next day
C18_Witness ==
    /\ ticks = 1
    /\ rtc_seconds = 0
    /\ rtc = DeviceDate(23, 59, 59)
    /\ CURRENT_TIME = [DeviceDate(0, 0, 0) EXCEPT !.day = rtc.day + 1]

\* C20: a wake-up of the display by the request in the slot leaves the
\* remembered blink cleared if the request is Normal, replaced by the
\* request's data if it is Blink, and as it was if it is TimeChanged; a
\* wake-up by the 20 s timer leaves it cleared; and in the same step, with
\* nothing in between, the display is drawn from the current time and
\* brightness with the blink just settled.
C20_WakeHandling ==
    [][/\ (SCREEN_REFRESH_SIGNAL # None /\ SCREEN_REFRESH_SIGNAL' = None) =>
            /\ blink' = IF SCREEN_REFRESH_SIGNAL[2] = Normal THEN None
                        ELSE IF IsBlink(SCREEN_REFRESH_SIGNAL[2])
                        THEN Some(SCREEN_REFRESH_SIGNAL[2][2])
                        ELSE blink
            /\ SCREEN_REFRESH_SIGNAL[2] = TimeChanged => blink' = blink
            /\ frame_buffer' = render(CURRENT_TIME, CURRENT_BRIGHTNESS, blink')
       /\ (pc["screen_update"] = "select" /\ RenderPass
              /\ UNCHANGED SCREEN_REFRESH_SIGNAL) =>
            /\ blink' = None
            /\ frame_buffer' = render(CURRENT_TIME, CURRENT_BRIGHTNESS, None)]_vars

\* an edit drawn with the blink remembered before it: minutes 00 after 59,
\* highlighted
C20_Witness ==
    /\ Handled(AdjustButton(Short), SettingTime(0))
    /\ SCREEN_REFRESH_SIGNAL = None
    /\ coalesced = 1
    /\ blink = Some(BlinkData(0, 0))
    /\ blink_frame = 1
    /\ Drawn = <<2, 3, 0, 0>>
    /\ frame_buffer[3].color = HIGHLIGHT

\* C16: no wait of the display task lasts longer than 20 s, and every render
\* pass draws the shared time of that moment, so what is on display is never
\* older than 20 s; with every woken task polled and time passing, the
\* display task renders again and again for ever, with or without requests,
\* and digits that a tick has made stale are redrawn.
C16_BoundedStaleness ==
    /\ [](timer["screen_update"] <= SCREEN_TIMEOUT_MS)
    /\ [][RenderPass => Drawn' = digits(CURRENT_TIME)]_vars
    /\ []<><<ScreenStart \/ ScreenTimeout \/ ScreenSignal>>_vars
    /\ (Drawn # digits(CURRENT_TIME)) ~> (Drawn = digits(CURRENT_TIME))

\* midnight, ticked in during a wait, drawn by the timeout alone: no request
\* was ever raised
C16_Witness ==
    /\ ticks = 1
    /\ sent = 0
    /\ SCREEN_REFRESH_SIGNAL = None
    /\ coalesced = 0
    /\ rtc = DeviceDate(23, 59, 59)
    /\ CURRENT_TIME.hours = 0
    /\ Drawn = <<0, 0, 0, 0>>
    /\ pc["screen_update"] = "select"
    /\ timer["screen_update"] = 0

\* C19: the mode enters SettingTime only with the blink driver's frame
\* counter at 0, and every iteration of the driver taken in SettingTime raises
\* Blink with the mode's position of that moment and the counter as frame,
\* and flips the counter; nothing else writes the counter.  So the requests
\* of an edit session carry frames 0, 1, 0, 1, ... from its first request on,
\* across a change of position too.
C19_FramesAlternate ==
    /\ [][(CURRENT_STATE = Idle /\ IsSettingTime(CURRENT_STATE')) =>
            blink_frame = 0]_vars
    /\ [][(BlinkDriverRuns /\ IsSettingTime(CURRENT_STATE)) =>
            /\ SCREEN_REFRESH_SIGNAL' =
                   Some(Blink(BlinkData(CURRENT_STATE[2], blink_frame)))
            /\ blink_frame' = (blink_frame + 1) % 2]_vars
    /\ [][blink_frame' # blink_frame => pc'["blink_task"] = "sleep"
                                        /\ timer'["blink_task"] = 0]_vars

\* the first request of a second edit session, after the first was cancelled
C19_Witness ==
    /\ presses = 3
    /\ sent = 3
    /\ Handled(SetButton(Long), Idle)
    /\ CURRENT_STATE = SettingTime(0)
    /\ SCREEN_REFRESH_SIGNAL = Some(Blink(BlinkData(0, 0)))
    /\ blink_frame = 1

\* C17: once a call on the persistent clock (in the RTC sync task, or in the
\* dispatcher's handling of Adjust-Short) or a write to the display (in a
\* render pass) has failed, the task that made the call is stopped at it,
\* and no step follows: it does not go round its loop again.  The step in
\* which a call of the dispatcher fails leaves the shared time as it was and
\* raises no request; the step in which the sync task's read fails leaves the
\* shared time as it was.
C17_FatalErrorsHalt ==
    /\ [](failed # None => pc[failed[2][1]] = "panicked")
    /\ [][failed # None => UNCHANGED vars]_vars
    /\ [][(failed = None /\ failed' # None
              /\ failed'[2][1] \in {"process_events", "sync_time"}) =>
            UNCHANGED <<CURRENT_TIME, CURRENT_STATE, SCREEN_REFRESH_SIGNAL,
                        pending>>]_vars

\* the write of an edit has failed: the shared time is the unedited one the
\* sync task copied, and the only request raised so far is the blink driver's
C17_Witness ==
    /\ failed = Some(set_datetime("process_events"))
    /\ pc["process_events"] = "panicked"
    /\ Handled(AdjustButton(Short), SettingTime(0))
    /\ CURRENT_TIME = DeviceDate(23, 59, 59)
    /\ rtc.minutes = 0
    /\ SCREEN_REFRESH_SIGNAL = Some(Blink(BlinkData(0, 0)))

\* C21: the step in which the dispatcher handles Adjust-Long, in whatever
\* mode, or Set-Short with Mode = Idle, takes the event off the channel and
\* leaves Mode, the shared time, the brightness and the persistent clock (its
\* time, and the calls made on its handle) as they were, and raises no request:
\* the refresh slot and the count of raises are as before.
C21_NoOpCases ==
    [][(Dispatching(AdjustButton(Long))
          \/ (Dispatching(SetButton(Short)) /\ CURRENT_STATE = Idle)) =>
         /\ CURRENT_STATE \in Modes
         /\ UNCHANGED <<CURRENT_STATE, CURRENT_TIME, CURRENT_BRIGHTNESS, rtc,
                        rtc_access, SCREEN_REFRESH_SIGNAL, pending>>]_vars

\* Adjust-Long handled at position 1 of an edit, the slot still empty and the
\* device never written
C21_Witness ==
    /\ Handled(AdjustButton(Long), SettingTime(1))
    /\ CURRENT_STATE = SettingTime(1)
    /\ SCREEN_REFRESH_SIGNAL = None
    /\ pending = 0
    /\ rtc_access = {get_datetime("sync_time")}
    /\ CURRENT_TIME = rtc

\* the current (or latest) low period of b's pin is a tap: the pin has been
\* low in it for less than the 50 ms of the settle window
Tap(b) == low_ms[b] < DEBOUNCE_MS

\* C22: a low period of a pin that ends before the 50 ms of the settle window
\* have passed produces no event.  During it and after it, until the pin falls
\* again, wait_for_low_debounced has not returned, the task is not at the
\* Short/Long select nor at a send, and it has sent nothing for that period;
\* and every step in which an event is put on the channel belongs to a task
\* whose pin has been low for 50 ms or more.  Once the pin is high again the
\* task goes back to its wait for the pin to fall.
C22_TapSendsNothing ==
    /\ [](\A b \in Buttons :
            Tap(b) =>
              /\ returns[b] = 0
              /\ press_events[b] = <<>>
              /\ pc[b] \in {"start", "wait_low", "settle"})
    /\ [][\A b \in Buttons :
            (Tap(b) /\ pin[b] = High /\ pc'[b] # pc[b]) =>
               /\ pc[b] \in {"start", "settle"}
               /\ pc'[b] = "wait_low"]_vars
    /\ [][\A b \in Buttons :
            (press_events'[b] # press_events[b] /\ press_events'[b] # <<>>)
               => ~Tap(b)]_vars
    /\ [][sent' # sent =>
            \E b \in Buttons : /\ ~Tap(b)
                               /\ press_events'[b] # press_events[b]
                               /\ EVENT_CHANNEL' =
                                     Append(EVENT_CHANNEL,
                                            press_events'[b][Len(press_events'[b])])]_vars

\* three taps of 25 ms, the last on button 2, all over: both tasks wait for
\* the next fall, and no event was ever sent
C22_Witness ==
    /\ presses = 3
    /\ sent = 0
    /\ EVENT_CHANNEL = <<>>
    /\ matched = None
    /\ \A b \in Buttons : /\ pin[b] = High
                           /\ pc[b] = "wait_low"
                           /\ low_ms[b] = DEBOUNCE_MS \div 2
                           /\ press_events[b] = <<>>

\* this step is the dispatcher taking Mode from SettingTime to Idle
LeavesEdit == IsSettingTime(CURRENT_STATE) /\ CURRENT_STATE' = Idle

\* this step is a wake-up of the display task, with its render pass
WakeUp == pc["screen_update"] = "select" /\ RenderPass

\* C23: every step in which the dispatcher takes Mode from SettingTime to
\* Idle, by Set-Long (cancel) or by Set-Short at the last position
\* (completion), leaves a Normal request in the refresh slot; and a wake-up of
\* the display task with Mode = Idle leaves no blink remembered and draws no
\* digit with the highlight intensity.
C23_LeavingEditRaisesNormal ==
    /\ [][LeavesEdit => SCREEN_REFRESH_SIGNAL' = Some(Normal)]_vars
    /\ [][(WakeUp /\ CURRENT_STATE = Idle) =>
            /\ blink' = None
            /\ \A i \in 1..4 : frame_buffer'[i].color # HIGHLIGHT]_vars

\* this step is the dispatcher committing an edit: the store into the shared
\* time that follows the write to the persistent clock
EditCommits ==
    /\ pc["process_events"] = "advance_time_store"
    /\ pc'["process_events"] # "advance_time_store"

\* this step is sync_time's store into the shared time
SyncStores ==
    /\ pc["sync_time"] = "store_time"
    /\ pc'["sync_time"] # "store_time"

\* C24: while sync_time is between its read of the persistent clock and its
\* store into the shared time it is the task being polled, and the reading
\* it carries is what the device holds; no edit of the dispatcher is
\* committed, nor the device written, in between; so the reading it stores
\* is never older than a committed edit.
C24_EditNotClobbered ==
    /\ [](pc["sync_time"] = "store_time" =>
            /\ running = Some("sync_time")
            /\ local.synced_time = Some(rtc)
            /\ held = [l \in Locks |-> None])
    /\ [][(EditCommits \/ rtc' # rtc) => pc["sync_time"] # "store_time"]_vars
    /\ [][SyncStores => (CURRENT_TIME' = rtc /\ CURRENT_TIME' = local.synced_time[2])]_vars

\* sync_time between its read and its store, carrying the time of a first
\* edit, while the shared time has ticked on and a second edit waits in the
\* channel with Mode = SettingTime(1)
C24_Witness ==
    /\ pc["sync_time"] = "store_time"
    /\ running = Some("sync_time")
    /\ CURRENT_STATE = SettingTime(1)
    /\ EVENT_CHANNEL = <<AdjustButton(Short)>>
    /\ set_datetime("process_events") \in rtc_access
    /\ local.synced_time = Some(rtc)
    /\ rtc.year = default_datetime.year
    /\ ticks = 1
    /\ CURRENT_TIME # rtc

\* task t holds the guard of Mutex l
Holds(t, l) == held[l] = Some(t)

\* task t stands at the lock() of a Mutex that task u holds
BlockedOn(t, u) ==
    /\ awaited(pc[t]) # None
    /\ Holds(u, awaited(pc[t])[2])

\* the positions at which a task waits for an event, a request or a Timer
Waits == {"start", "recv", "select", "sleep", "ticker"}

\* the Mutexes of the three fields of the shared state
FieldLocks == {"CURRENT_STATE", "CURRENT_TIME", "CURRENT_BRIGHTNESS"}

\* events whose handling is over: on_event has returned for them
Completed == Dispatched - (IF local.event # None THEN 1 ELSE 0)

\* the length of the longest run of presses
LongestRun ==
    CHOOSE n \in {Len(s) : s \in LockScripts} :
        \A s \in LockScripts : Len(s) <= n

\* C25: no task ever stands at the lock() of a Mutex another task holds, so
\* no two tasks are blocked on each other.  The only guard alive at an await
\* is the dispatcher's guard of the persistent clock, at the lock() of the
\* shared time in advance_time; no task holding the shared time is at a
\* lock() of the persistent clock; and a task waiting for an event, a
\* request or a Timer holds no guard at all.  With the executor polling every
\* woken task, every event put on the channel is in the end handled: the
\* count of events handled never falls, and again and again it has caught up
\* with the count of events sent.
C25_NoDeadlockAndProgress ==
    /\ [](\A t, u \in Tasks : ~BlockedOn(t, u))
    /\ [](\A t \in Tasks :
            /\ Holds(t, "rtc") =>
                  (t = "process_events" /\ awaited(pc[t]) = Some("CURRENT_TIME"))
            /\ Holds(t, "CURRENT_TIME") => awaited(pc[t]) # Some("rtc")
            /\ \A l \in FieldLocks : ~Holds(t, l)
            /\ pc[t] \in Waits => \A l \in Locks : ~Holds(t, l))
    /\ [](Completed <= sent)
    /\ [][Completed' >= Completed]_vars
    /\ []<>(Completed = sent)

\* the dispatcher in advance_time with the guard of the persistent clock, at
\* the lock() of the shared time, handling the last of four events while
\* sync_time sleeps
C25_Witness ==
    /\ Holds("process_events", "rtc")
    /\ pc["process_events"] = "advance_time_store"
    /\ running = Some("process_events")
    /\ pc["sync_time"] = "sleep"
    /\ sent = LongestRun
    /\ Completed = LongestRun - 1
    /\ CURRENT_STATE = SettingTime(1)

====
